---- MODULE Spec2Model ----
(***************************************************************************)
(* Verification model of the title reconciliation engine of Dashboard-V5:  *)
(* processors/echo_adapter.py (_norm_text, _greedy_match,                  *)
(* build_echo_tables) and processors/grades_adapter.py                     *)
(* (_clean_assignment_header, build_gradebook_tables).                     *)
(*                                                                         *)
(* A title is a sequence of characters; a character is a one-letter string *)
(* or, for the two non-ASCII code points the model needs, a name:          *)
(* "I_DOT" is U+0130 and "DOT_ABOVE" is U+0307.                            *)
(***************************************************************************)
EXTENDS Integers, Sequences, FiniteSets, TLC

VARIABLES
    nTitle,         \* normalizer: the raw title handed to _norm_text
    nOut,           \* normalizer: results of the successive _norm_text calls
    ekeys,          \* _greedy_match: first argument (list of keys)
    ckeys,          \* _greedy_match: second argument (list of keys)
    scorer,         \* FUZZY_SCORER on the key pairs of this run
    candidates,     \* _greedy_match: list of <<i, j, sc>>
    pass,           \* _greedy_match: which loop filled candidates
    k,              \* _greedy_match: position of the selection loop
    used_e,         \* _greedy_match: consumed first-position indices
    used_c,         \* _greedy_match: consumed second-position indices
    chosen,         \* _greedy_match: accepted candidates, in order
    gpc,            \* _greedy_match: control position
    echo_summary,   \* build_echo_tables: the per-media summary
    canvas_order_df,\* build_echo_tables: the catalog argument
    es,             \* build_echo_tables: echo_summary rows with _ekey
    order,          \* build_echo_tables: catalog rows with _ckey
    m1,             \* build_echo_tables: merged table
    unmatched_idx,  \* build_echo_tables: m1 rows handed to the fuzzy pass
    pairs,          \* build_echo_tables: result of _greedy_match
    mod_agg,        \* build_echo_tables: per-module means, with position
    module_table,   \* build_echo_tables: the module table returned
    df,             \* build_echo_tables: the view rows, times in seconds
    class_total_students, \* build_echo_tables: the class total argument
    gb_raw,         \* build_gradebook_tables: points row and student rows
    fuzz_ratio,     \* fuzz.ratio on the (title, header) pairs of this run
    gradebook_summary_df, \* build_gradebook_tables: the three summary rows
    cols_for_mod,   \* build_gradebook_tables: matched headers of a module
    module_rows,    \* build_gradebook_tables: rows collected so far
    gi,             \* build_gradebook_tables: modules already visited
    module_assignment_metrics_df, \* build_gradebook_tables: result table
    columns, \* _find_col: the headers of the frame, in column order
    want, \* _find_col: the candidate names, in order
    required, \* _find_col: whether a missing column is an error
    found, \* _find_col: what the call returned or raised
    titles, \* _dedupe_titles: the (id, title) pairs passed in
    out, \* _dedupe_titles: the pairs returned
    dpc, \* _dedupe_titles: control position
    requests, \* _fetch_with_fallback: the requests sent so far, with their outcome
    fetched, \* _get_all: the items collected by the running fetch
    outcome, \* _fetch_with_fallback: what the call returned or raised
    fpc, \* _fetch_with_fallback: control position
    step, \* app.py: st.session_state.step
    session, \* app.py: the other keys of st.session_state ("absent" when not set)
    secrets, \* app.py: whether TOKEN and ECHO_TOKEN are set
    notice, \* app.py: the st.error message of the last script run
    page, \* app.py: what the last script run rendered below the sidebar
    book, \* build_gradebook_tables: the gradebooks of two callers
    gradebook_df, \* build_gradebook_tables: the per-student table returned to each caller
    returned_to, \* build_gradebook_tables: the callers whose call has returned
    fn, \* the function called: build_echo_tables or build_gradebook_tables
    given, \* the entity table and the catalog as the caller passed them
    arg_table, \* the caller's entity table object
    arg_catalog, \* the caller's catalog object
    local, \* the frame the function works on (df, gb_raw)
    shares, \* whether the working frame is the caller's object
    tables, \* the tables the call returned, or the error it raised
    cpc, \* the call: control position
    pc              \* build_echo_tables: control position

vars == <<nTitle, nOut, ekeys, ckeys, scorer, candidates, pass, k, used_e,
          used_c, chosen, gpc, echo_summary, canvas_order_df, es, order, m1,
          unmatched_idx, pairs, mod_agg, module_table, df,
          class_total_students, gb_raw, fuzz_ratio, gradebook_summary_df,
          cols_for_mod, module_rows, gi, module_assignment_metrics_df,
          columns, want, required, found,
          titles, out, dpc,
          requests, fetched, outcome, fpc,
          step, session, secrets, notice, page,
          book, gradebook_df, returned_to,
          fn, given, arg_table, arg_catalog, local, shares, tables, cpc, pc>>

findVars == <<columns, want, required, found>>
dedupeVars == <<titles, out, dpc>>
fetchVars == <<requests, fetched, outcome, fpc>>
wizardVars == <<step, session, secrets, notice, page>>
deidVars == <<book, gradebook_df, returned_to>>
callVars == <<fn, given, arg_table, arg_catalog, local, shares, tables, cpc>>
toolVars == <<findVars, dedupeVars, fetchVars, wizardVars, deidVars, callVars>>
normVars   == <<nTitle, nOut>>
greedyVars == <<ekeys, ckeys, scorer, candidates, pass, k, used_e, used_c,
                chosen, gpc>>
summaryVars == <<df, class_total_students>>
gradeVars  == <<gb_raw, fuzz_ratio, gradebook_summary_df, cols_for_mod,
                module_rows, gi, module_assignment_metrics_df>>
echoVars   == <<echo_summary, canvas_order_df, es, order, m1, unmatched_idx,
                pairs, mod_agg, module_table, summaryVars, gradeVars, pc>>

(***************************************************************************)
(* Characters                                                              *)
(***************************************************************************)
I_DOT     == "I_DOT"
DOT_ABOVE == "DOT_ABOVE"

UpperLetters == {"A", "C", "D", "E", "F", "G", "H", "I", "L", "M", "N", "O", "P",
                 "R", "S", "T", "U", "V", "W"}
LowerLetters == {"a", "b", "c", "d", "e", "f", "g", "h", "i", "l", "m", "n", "o",
                 "p", "r", "s", "t", "u", "v", "w", "y"}
Digits       == {"0", "1", "2", "3", "4", "5", "6", "7", "8", "9"}

isalnum(ch) == ch \in UpperLetters \cup LowerLetters \cup Digits \cup {I_DOT}

isspace(ch) == ch = " "

isdigit(ch) == ch \in Digits

\* str.lower() of one character: a sequence, because U+0130 lowers to two
\* code points, "i" followed by the combining dot above.
lower(ch) ==
    CASE ch = "A" -> <<"a">>
      [] ch = "C" -> <<"c">>
      [] ch = "D" -> <<"d">>
      [] ch = "E" -> <<"e">>
      [] ch = "F" -> <<"f">>
      [] ch = "G" -> <<"g">>
      [] ch = "H" -> <<"h">>
      [] ch = "I" -> <<"i">>
      [] ch = "L" -> <<"l">>
      [] ch = "M" -> <<"m">>
      [] ch = "N" -> <<"n">>
      [] ch = "O" -> <<"o">>
      [] ch = "P" -> <<"p">>
      [] ch = "R" -> <<"r">>
      [] ch = "S" -> <<"s">>
      [] ch = "T" -> <<"t">>
      [] ch = "U" -> <<"u">>
      [] ch = "V" -> <<"v">>
      [] ch = "W" -> <<"w">>
      [] ch = I_DOT -> <<"i", DOT_ABOVE>>
      [] OTHER -> <<ch>>

\* re.I: how a subject character compares with a lower-case pattern letter.
FoldCase(ch) == IF ch \in UpperLetters THEN lower(ch)[1] ELSE ch

(***************************************************************************)
(* String helpers                                                          *)
(***************************************************************************)
RECURSIVE rstrip(_)
rstrip(s) ==
    IF s = <<>> THEN s
    ELSE IF isspace(s[Len(s)]) THEN rstrip(SubSeq(s, 1, Len(s) - 1))
    ELSE s

RECURSIVE lstrip(_)
lstrip(s) ==
    IF s = <<>> THEN s
    ELSE IF isspace(s[1]) THEN lstrip(Tail(s))
    ELSE s

strip(s) == lstrip(rstrip(s))

RECURSIVE TrailingDigits(_)
TrailingDigits(s) ==
    IF s = <<>> THEN 0
    ELSE IF isdigit(s[Len(s)]) THEN 1 + TrailingDigits(SubSeq(s, 1, Len(s) - 1))
    ELSE 0

AllDigits(s) == \A i \in 1..Len(s) : isdigit(s[i])

\* Position of the last occurrence of ch in s, 0 when there is none.
RECURSIVE LastIndexOf(_, _)
LastIndexOf(s, ch) ==
    IF s = <<>> THEN 0
    ELSE IF s[Len(s)] = ch THEN Len(s)
    ELSE LastIndexOf(SubSeq(s, 1, Len(s) - 1), ch)

\* s split at every ":" (as the duration pattern reads its fields).
RECURSIVE SplitColon(_)
SplitColon(s) ==
    LET p == LastIndexOf(s, ":")
    IN  IF p = 0 THEN <<s>>
        ELSE Append(SplitColon(SubSeq(s, 1, p - 1)), SubSeq(s, p + 1, Len(s)))

(***************************************************************************)
(* Cleaning patterns                                                       *)
(***************************************************************************)
READ_ONLY_LITERAL == <<"(", "r", "e", "a", "d", " ", "o", "n", "l", "y", ")">>

EndsWithNoCase(s, lit) ==
    /\ Len(s) >= Len(lit)
    /\ \A i \in 1..Len(lit) : FoldCase(s[Len(s) - Len(lit) + i]) = lit[i]

\* _READ_ONLY_RE.sub("", s) with \s*\(read only\)\s*$ and re.I
READ_ONLY_RE_sub(s) ==
    LET t == rstrip(s)
    IN  IF EndsWithNoCase(t, READ_ONLY_LITERAL)
        THEN rstrip(SubSeq(t, 1, Len(t) - Len(READ_ONLY_LITERAL)))
        ELSE s

\* (?:\d{1,2}:)?\d{1,2}:\d{2}
IsDurationBody(b) ==
    LET parts == SplitColon(b)
        n     == Len(parts)
    IN  /\ n \in {2, 3}
        /\ \A i \in 1..n : AllDigits(parts[i])
        /\ Len(parts[n]) = 2
        /\ \A i \in 1..(n - 1) : Len(parts[i]) \in {1, 2}

\* _DURATION_TAIL_RE.sub("", s) with \s*\((?:\d{1,2}:)?\d{1,2}:\d{2}\)\s*$
DURATION_TAIL_RE_sub(s) ==
    LET t == rstrip(s)
        p == LastIndexOf(t, "(")
    IN  IF /\ t # <<>>
           /\ t[Len(t)] = ")"
           /\ p > 0
           /\ IsDurationBody(SubSeq(t, p + 1, Len(t) - 1))
        THEN rstrip(SubSeq(t, 1, p - 1))
        ELSE s

\* _NUM_ID_TAIL_RE.sub("", s) with \s*-\s*\d{4,}\s*$
NUM_ID_TAIL_RE_sub(s) ==
    LET t == rstrip(s)
        d == TrailingDigits(t)
        u == rstrip(SubSeq(t, 1, Len(t) - d))
    IN  IF d >= 4 /\ u # <<>> /\ u[Len(u)] = "-"
        THEN rstrip(SubSeq(u, 1, Len(u) - 1))
        ELSE s

\* The three substitutions in the order of the source.
StripOrderOfSource(s) ==
    NUM_ID_TAIL_RE_sub(DURATION_TAIL_RE_sub(READ_ONLY_RE_sub(s)))

_strip_noise_tail(title) ==
    IF title = <<>> THEN <<>>
    ELSE strip(StripOrderOfSource(title))

\* "".join(ch.lower() if (ch.isalnum() or ch.isspace()) else " " for ch in s)
RECURSIVE MapChars(_)
MapChars(s) ==
    IF s = <<>> THEN <<>>
    ELSE (IF isalnum(s[1]) \/ isspace(s[1]) THEN lower(s[1]) ELSE <<" ">>)
         \o MapChars(Tail(s))

\* " ".join(s.split())
RECURSIVE JoinSplit(_)
JoinSplit(s) ==
    LET t == lstrip(s)
    IN  IF t = <<>> THEN <<>>
        ELSE IF Len(t) >= 2 /\ isspace(t[2])
             THEN LET rest == JoinSplit(Tail(Tail(t)))
                  IN  IF rest = <<>> THEN <<t[1]>> ELSE <<t[1], " ">> \o rest
             ELSE <<t[1]>> \o JoinSplit(Tail(t))

_norm_text(text) == JoinSplit(MapChars(_strip_noise_tail(text)))

(***************************************************************************)
(* Normalizer runs: _norm_text applied to a title, then to its own result  *)
(***************************************************************************)
MaxMarkers == 3

\* Base titles
BaseTitles ==
    { <<>>,
      <<"I", "n", "t", "r", "o", " ", "L", "e", "c", "t", "u", "r", "e">>,
      <<"i", "n", "t", "r", "o", " ", "l", "e", "c", "t", "u", "r", "e">>,
      <<I_DOT>>,
      <<"a", "-", "1">> }

\* Trailing markers a title may carry
Markers ==
    { <<" ", "(", "R", "e", "a", "d", " ", "O", "n", "l", "y", ")">>,
      <<" ", "(", "1", "2", ":", "3", "4", ")">>,
      <<" ", "(", "1", ":", "0", "2", ":", "3", "4", ")">>,
      <<" ", "-", " ", "1", "2", "3", "4", "5", "6">>,
      <<" ", "-", " ", "1", "2">> }

RECURSIVE Concat(_)
Concat(ss) == IF ss = <<>> THEN <<>> ELSE Head(ss) \o Concat(Tail(ss))

MarkerTails == UNION { [1..n -> Markers] : n \in 0..MaxMarkers }

NormInputs == { b \o Concat(ms) : b \in BaseTitles, ms \in MarkerTails }

IdleGreedy ==
    /\ ekeys = <<>> /\ ckeys = <<>> /\ scorer = <<>> /\ candidates = <<>>
    /\ pass = "none" /\ k = 0 /\ used_e = {} /\ used_c = {} /\ chosen = <<>>
    /\ gpc = "idle"

IdleFind ==
    /\ columns = <<>>
    /\ want = <<>>
    /\ required = FALSE
    /\ found = [kind |-> "idle", value |-> <<>>, need |-> <<>>, available |-> <<>>]

IdleDedupe ==
    /\ titles = <<>>
    /\ out = <<>>
    /\ dpc = "idle"

IdleFetch ==
    /\ requests = <<>>
    /\ fetched = <<>>
    /\ outcome = [kind |-> "none", value |-> 0]
    /\ fpc = "idle"

IdleWizard ==
    /\ step = 1
    /\ session = <<>>
    /\ secrets = <<>>
    /\ notice = "none"
    /\ page = "step 1"

IdleDeid ==
    /\ book = <<>>
    /\ gradebook_df = <<>>
    /\ returned_to = {}

IdleCall ==
    /\ fn = "none"
    /\ given = <<>>
    /\ arg_table = <<>>
    /\ arg_catalog = <<>>
    /\ local = <<>>
    /\ shares = FALSE
    /\ tables = <<>>
    /\ cpc = "idle"

IdleGrades ==
    /\ gb_raw = <<>> /\ fuzz_ratio = <<>> /\ gradebook_summary_df = <<>>
    /\ cols_for_mod = <<>> /\ module_rows = <<>> /\ gi = 0
    /\ module_assignment_metrics_df = <<>>

IdleEcho ==
    /\ echo_summary = <<>> /\ canvas_order_df = <<>>
    /\ es = <<>> /\ order = <<>> /\ m1 = <<>> /\ unmatched_idx = <<>>
    /\ pairs = <<>> /\ mod_agg = <<>> /\ module_table = <<>>
    /\ df = <<>> /\ class_total_students = <<>> /\ pc = "idle"
    /\ IdleGrades

IdleNorm == nTitle = <<>> /\ nOut = <<>>

InitNorm ==
    /\ nTitle \in NormInputs
    /\ nOut = <<>>
    /\ IdleGreedy
    /\ IdleEcho
    /\ IdleFind
    /\ IdleDedupe
    /\ IdleFetch
    /\ IdleWizard
    /\ IdleDeid
    /\ IdleCall

\* key = _norm_text(title)
NormTitle ==
    /\ nOut = <<>>
    /\ nOut' = <<_norm_text(nTitle)>>
    /\ UNCHANGED <<nTitle, greedyVars, echoVars, toolVars>>

\* _norm_text(key): the normalizer applied to its own result
NormKey ==
    /\ Len(nOut) = 1
    /\ nOut' = Append(nOut, _norm_text(nOut[1]))
    /\ UNCHANGED <<nTitle, greedyVars, echoVars, toolVars>>

NextNorm == NormTitle \/ NormKey

SpecNorm == InitNorm /\ [][NextNorm]_vars

INTRO_LECTURE == <<"i", "n", "t", "r", "o", " ", "l", "e", "c", "t", "u", "r", "e">>

COMPOSITE_TITLE == <<"I", "n", "t", "r", "o", " ", "L", "e", "c", "t", "u", "r", "e", " ", "(", "R", "e", "a", "d", " ", "O", "n", "l", "y", ")", " ", "(", "1", "2", ":", "3", "4", ")", " ", "-", " ", "1", "2", "3", "4", "5", "6">>

(***************************************************************************)
(* Fuzzy matching knobs                                                    *)
(***************************************************************************)
THRESHOLD    == 80
FALLBACK_MIN == 70
TOP_K        == 6

\* FUZZY_SCORER (rapidfuzz token_set_ratio) is library code: its value on
\* each pair of keys of a run is an input of the run, held in scorer.
FUZZY_SCORER(a, b) == scorer[<<a, b>>]

(***************************************************************************)
(* _greedy_match.  Indices are 1-based here (0-based in the source).       *)
(***************************************************************************)
\* Choice j comes before choice j2 in the result of process.extract:
\* higher score first, equal scores in list order.
RanksBefore(ek, j, j2) ==
    \/ FUZZY_SCORER(ek, ckeys[j]) > FUZZY_SCORER(ek, ckeys[j2])
    \/ FUZZY_SCORER(ek, ckeys[j]) = FUZZY_SCORER(ek, ckeys[j2]) /\ j <= j2

RECURSIVE RankChoices(_, _)
RankChoices(ek, S) ==
    IF S = {} THEN <<>>
    ELSE LET j == CHOOSE x \in S : \A y \in S : RanksBefore(ek, x, y)
         IN  <<j>> \o RankChoices(ek, S \ {j})

\* Variant of extract that returns one result fewer than asked for.
extractOneShort(ek, limit) ==
    LET ranked == RankChoices(ek, 1..Len(ckeys))
        keep   == limit - 1
    IN  SubSeq(ranked, 1, IF Len(ranked) < keep THEN Len(ranked) ELSE keep)

\* process.extract(ek, ckeys, scorer=FUZZY_SCORER, limit=limit): the indices
\* of the limit best choices, best first.
extract(ek, limit) ==
    LET ranked == RankChoices(ek, 1..Len(ckeys))
    IN  SubSeq(ranked, 1, IF Len(ranked) < limit THEN Len(ranked) ELSE limit)

\* The candidates entity key i contributes in the primary loop.
RECURSIVE KeepAtThreshold(_, _, _)
KeepAtThreshold(i, topn, threshold) ==
    IF topn = <<>> THEN <<>>
    ELSE LET j  == Head(topn)
             sc == FUZZY_SCORER(ekeys[i], ckeys[j])
         IN  (IF sc >= threshold THEN << <<i, j, sc>> >> ELSE <<>>)
             \o KeepAtThreshold(i, Tail(topn), threshold)

TopCandidates(i, threshold, top_k) ==
    KeepAtThreshold(i, extract(ekeys[i], top_k), threshold)

RECURSIVE PrimaryCandidates(_, _, _)
PrimaryCandidates(i, threshold, top_k) ==
    IF i > Len(ekeys) THEN <<>>
    ELSE TopCandidates(i, threshold, top_k)
         \o PrimaryCandidates(i + 1, threshold, top_k)

\* process.extractOne(ek, ckeys, scorer=FUZZY_SCORER): the best choice, the
\* first one among equals; <<>> when there is no choice.
extractOne(ek) == extract(ek, 1)

\* Variant of BestCandidate that does not test fallback_min.
BestCandidateNoMin(i, fallback_min) ==
    LET best == extractOne(ekeys[i])
    IN  IF best # <<>>
        THEN << <<i, best[1], FUZZY_SCORER(ekeys[i], ckeys[best[1]])>> >>
        ELSE <<>>

\* Variant of BestCandidate that keeps the two best choices.
BestCandidateTopTwo(i, fallback_min) ==
    KeepAtThreshold(i, extract(ekeys[i], 2), fallback_min)

BestCandidate(i, fallback_min) ==
    LET best == extractOne(ekeys[i])
    IN  IF best # <<>> /\ FUZZY_SCORER(ekeys[i], ckeys[best[1]]) >= fallback_min
        THEN << <<i, best[1], FUZZY_SCORER(ekeys[i], ckeys[best[1]])>> >>
        ELSE <<>>

RECURSIVE FallbackCandidates(_, _)
FallbackCandidates(i, fallback_min) ==
    IF i > Len(ekeys) THEN <<>>
    ELSE BestCandidate(i, fallback_min) \o FallbackCandidates(i + 1, fallback_min)

\* candidates.sort(key=lambda t: t[2], reverse=True): stable, by score
\* descending.
RECURSIVE InsertByScore(_, _)
InsertByScore(sorted, c) ==
    IF sorted = <<>> THEN <<c>>
    ELSE IF Head(sorted)[3] >= c[3]
         THEN <<Head(sorted)>> \o InsertByScore(Tail(sorted), c)
         ELSE <<c>> \o sorted

\* Variant of SortByScore that leaves the list in discovery order.
SortByScoreUnsorted(cs) == cs

\* Variant of SortByScore that puts a candidate before the ones of equal score.
RECURSIVE InsertBeforeTies(_, _)
InsertBeforeTies(sorted, c) ==
    IF sorted = <<>> THEN <<c>>
    ELSE IF Head(sorted)[3] > c[3]
         THEN <<Head(sorted)>> \o InsertBeforeTies(Tail(sorted), c)
         ELSE <<c>> \o sorted

RECURSIVE SortByScoreTiesReversed(_)
SortByScoreTiesReversed(cs) ==
    IF cs = <<>> THEN <<>>
    ELSE InsertBeforeTies(SortByScoreTiesReversed(SubSeq(cs, 1, Len(cs) - 1)),
                          cs[Len(cs)])

\* Variant of SortByScore that orders by score ascending.
RECURSIVE InsertAscending(_, _)
InsertAscending(sorted, c) ==
    IF sorted = <<>> THEN <<c>>
    ELSE IF Head(sorted)[3] <= c[3]
         THEN <<Head(sorted)>> \o InsertAscending(Tail(sorted), c)
         ELSE <<c>> \o sorted

RECURSIVE SortByScoreAscending(_)
SortByScoreAscending(cs) ==
    IF cs = <<>> THEN <<>>
    ELSE InsertAscending(SortByScoreAscending(SubSeq(cs, 1, Len(cs) - 1)),
                         cs[Len(cs)])

RECURSIVE SortByScore(_)
SortByScore(cs) ==
    IF cs = <<>> THEN <<>>
    ELSE InsertByScore(SortByScore(SubSeq(cs, 1, Len(cs) - 1)), cs[Len(cs)])

\* Variant of NeedsFallback that always runs the fallback loop.
NeedsFallbackAlways(cands) == TRUE

\* if not candidates:
NeedsFallback(cands) == cands = <<>>

\* Variant of Consumed that tests the first-position index only.
ConsumedEntityOnly(c, ue, uc) == c[1] \in ue

\* if i in used_e or j in used_c: continue
Consumed(c, ue, uc) == c[1] \in ue \/ c[2] \in uc

\* lines 109-114: the primary loop
GenCandidates ==
    /\ gpc = "gen"
    /\ candidates' = PrimaryCandidates(1, THRESHOLD, TOP_K)
    /\ pass' = "primary"
    /\ gpc' = IF NeedsFallback(candidates') THEN "fallback" ELSE "sort"
    /\ UNCHANGED <<ekeys, ckeys, scorer, k, used_e, used_c, chosen>>
    /\ UNCHANGED <<toolVars, normVars, echoVars>>

\* lines 116-120: the fallback loop, entered only if not candidates
Fallback ==
    /\ gpc = "fallback"
    /\ candidates' = candidates \o FallbackCandidates(1, FALLBACK_MIN)
    /\ pass' = "fallback"
    /\ gpc' = "sort"
    /\ UNCHANGED <<ekeys, ckeys, scorer, k, used_e, used_c, chosen>>
    /\ UNCHANGED <<toolVars, normVars, echoVars>>

\* lines 122-125
SortCandidates ==
    /\ gpc = "sort"
    /\ candidates' = SortByScore(candidates)
    /\ used_e' = {}
    /\ used_c' = {}
    /\ chosen' = <<>>
    /\ k' = 1
    /\ gpc' = "select"
    /\ UNCHANGED <<ekeys, ckeys, scorer, pass>>
    /\ UNCHANGED <<toolVars, normVars, echoVars>>

\* lines 126-131: one iteration of the selection loop
SelectStep ==
    /\ gpc = "select"
    /\ k <= Len(candidates)
    /\ IF Consumed(candidates[k], used_e, used_c)
       THEN UNCHANGED <<chosen, used_e, used_c>>
       ELSE /\ chosen' = Append(chosen, candidates[k])
            /\ used_e' = used_e \cup {candidates[k][1]}
            /\ used_c' = used_c \cup {candidates[k][2]}
    /\ k' = k + 1
    /\ UNCHANGED <<ekeys, ckeys, scorer, candidates, pass, gpc>>
    /\ UNCHANGED <<toolVars, normVars, echoVars>>

\* line 132
ReturnChosen ==
    /\ gpc = "select"
    /\ k > Len(candidates)
    /\ gpc' = "returned"
    /\ UNCHANGED <<ekeys, ckeys, scorer, candidates, pass, k, used_e, used_c,
                   chosen>>
    /\ UNCHANGED <<toolVars, normVars, echoVars>>

NextGreedy ==
    \/ GenCandidates
    \/ Fallback
    \/ SortCandidates
    \/ SelectStep
    \/ ReturnChosen

(***************************************************************************)
(* Direct calls of _greedy_match on arbitrary key lists and scores         *)
(***************************************************************************)
MaxE == 3
MaxC == 3

\* Most (entity key, choice) pairs scored in one direct call
MaxPairs == 7

\* Scores on both sides of FALLBACK_MIN and of THRESHOLD
ScoreVals == {65, 75, 90, 95}

EKeyPool == << <<"a">>, <<"b">>, <<"c">>, <<"d">>, <<"e">> >>
CKeyPool == << <<"l">>, <<"n">>, <<"o">>, <<"r">>, <<"t">>, <<"u">>, <<"y">>,
               <<"1">>, <<"2">>, <<"3">> >>

Range(f) == { f[x] : x \in DOMAIN f }

CallGreedy(nE, nC, vals) ==
    /\ ekeys = SubSeq(EKeyPool, 1, nE)
    /\ ckeys = SubSeq(CKeyPool, 1, nC)
    /\ scorer \in [Range(ekeys) \X Range(ckeys) -> vals]
    /\ candidates = <<>>
    /\ pass = "none"
    /\ k = 0
    /\ used_e = {}
    /\ used_c = {}
    /\ chosen = <<>>
    /\ gpc = "gen"

InitGreedy ==
    /\ \E nE \in 1..MaxE, nC \in 1..MaxC :
          nE * nC <= MaxPairs /\ CallGreedy(nE, nC, ScoreVals)
    /\ IdleNorm
    /\ IdleEcho
    /\ IdleFind
    /\ IdleDedupe
    /\ IdleFetch
    /\ IdleWizard
    /\ IdleDeid
    /\ IdleCall

SpecGreedy == InitGreedy /\ [][NextGreedy]_vars

(***************************************************************************)
(* Direct calls with long choice lists, for the top-K cut                  *)
(***************************************************************************)
TopKEnt == 1
TopKCat == 7

TopKVals == {75, 90}

InitTopK ==
    /\ \E nE \in 1..TopKEnt, nC \in 1..TopKCat : CallGreedy(nE, nC, TopKVals)
    /\ IdleNorm
    /\ IdleEcho
    /\ IdleFind
    /\ IdleDedupe
    /\ IdleFetch
    /\ IdleWizard
    /\ IdleDeid
    /\ IdleCall

SpecTopK == InitTopK /\ [][NextGreedy]_vars

(***************************************************************************)
(* Tables and floats.                                                      *)
(* A table is a sequence of rows; a cell is NaN or Val(x).  A float that   *)
(* is not NaN is a ratio <<numerator, denominator>> in lowest terms; the   *)
(* denominator 0 is the float inf.                                         *)
(***************************************************************************)
NaN == <<>>

Val(x) == <<x>>

isna(cell) == cell = NaN

Column(table, name) == [r \in 1..Len(table) |-> table[r][name]]

RECURSIVE GCD(_, _)
GCD(a, b) == IF b = 0 THEN a ELSE GCD(b, a % b)

\* The float a / b of integers a >= 0 and b >= 0 that are not both 0
Ratio(a, b) == LET g == GCD(a, b) IN <<a \div g, b \div g>>

AsFloat(x) == <<x, 1>>

IsInf(p) == p[2] = 0

Add(p, q) ==
    IF IsInf(p) \/ IsInf(q) THEN <<1, 0>>
    ELSE Ratio(p[1] * q[2] + q[1] * p[2], p[2] * q[2])

RECURSIVE Sum(_)
Sum(ps) == IF ps = <<>> THEN <<0, 1>> ELSE Add(Head(ps), Sum(Tail(ps)))

NotNa(cell) == ~isna(cell)

\* Series.mean(): skipna=True, NaN when no value is left
mean(cells) ==
    LET vals == SelectSeq(cells, NotNa)
        total == Sum([n \in 1..Len(vals) |-> vals[n][1]])
    IN  IF vals = <<>> THEN NaN
        ELSE IF IsInf(total) THEN Val(total)
        ELSE Val(Ratio(total[1], total[2] * Len(vals)))

\* The cells of an integer column as floats
Floats(cells) ==
    [n \in 1..Len(cells) |-> IF isna(cells[n]) THEN NaN
                             ELSE Val(AsFloat(cells[n][1]))]

(***************************************************************************)
(* build_echo_tables: the per-media summary (lines 164-205).               *)
(* Durations and view times are whole seconds.                             *)
(***************************************************************************)
\* x / y on two cells of whole numbers >= 0, as numpy divides with the
\* divide and invalid errors ignored: x / 0 is inf, 0 / 0 is NaN
Divide(x, y) ==
    IF isna(x) \/ isna(y) THEN NaN
    ELSE IF x[1] = 0 /\ y[1] = 0 THEN NaN
    ELSE Val(Ratio(x[1], y[1]))

Times(x, n) == IF isna(x) THEN NaN ELSE Val(x[1] * n)

\* Variant of PositiveDuration that lets a zero duration through.
PositiveDurationOrZero(cell) == ~isna(cell) /\ cell[1] >= 0

\* df[dur_col] > 0 (false on NaN)
PositiveDuration(cell) == ~isna(cell) /\ cell[1] > 0

\* line 165: np.where(df[dur_col] > 0, df[view_col] / df[dur_col], np.nan)
true_view_frac(row) ==
    IF PositiveDuration(row.Duration)
    THEN Divide(row.TotalViewTime, row.Duration)
    ELSE NaN

\* line 165: the row-level fraction is added to df
RowFractions ==
    /\ pc = "rows"
    /\ df' = [r \in 1..Len(df) |->
                 [Media |-> df[r].Media, UserName |-> df[r].UserName,
                  Duration |-> df[r].Duration,
                  TotalViewTime |-> df[r].TotalViewTime,
                  __true_view_frac |-> true_view_frac(df[r])]]
    /\ pc' = "group"
    /\ UNCHANGED <<echo_summary, canvas_order_df, es, order, m1,
                   unmatched_idx, pairs, mod_agg, module_table,
                   class_total_students>>
    /\ UNCHANGED <<toolVars, normVars, greedyVars, gradeVars>>

\* Media titles in the order groupby gives them (sorted as strings)
SortedMedia == << <<"A">>, <<"a">>, <<"b">> >>

\* line 168: the groups of df.groupby(df[media_col].astype(str)), in key order
MediaGroups(t) ==
    SelectSeq(SortedMedia, LAMBDA title : \E r \in 1..Len(t) : t[r].Media = Val(title))

RowsOfMedia(t, title) == SelectSeq(t, LAMBDA row : row.Media = Val(title))

\* line 171: g[uid_col].nunique(dropna=True)
nunique(cells) == Cardinality({ cells[n] : n \in { m \in 1..Len(cells) : NotNa(cells[m]) } })

\* line 177: g[dur_col].first(), the first value that is not NaN
first(cells) ==
    LET vals == SelectSeq(cells, NotNa)
    IN  IF vals = <<>> THEN NaN ELSE vals[1]

RECURSIVE SumInts(_)
SumInts(vals) == IF vals = <<>> THEN 0 ELSE vals[1][1] + SumInts(Tail(vals))

\* line 180: g[view_col].sum(min_count=1)
sum_min_count(cells) ==
    LET vals == SelectSeq(cells, NotNa)
    IN  IF vals = <<>> THEN NaN ELSE Val(SumInts(vals))

\* Python truth of the class total: None and 0 are false
Truthy(cell) == ~isna(cell) /\ cell[1] # 0

\* if class_total_students and class_total_students > 0
HasClassTotal == Truthy(class_total_students) /\ class_total_students[1] > 0

\* lines 182-205: one echo_summary row per media
SummaryRow(title) ==
    LET rows == RowsOfMedia(df, title)
        uniq_viewers == nunique(Column(rows, "UserName"))
        dur_per_media == first(Column(rows, "Duration"))
        sum_view_seconds == sum_min_count(Column(rows, "TotalViewTime"))
    IN  [MediaTitle |-> Val(title),
         VideoDuration |-> dur_per_media,
         Viewers |-> Val(uniq_viewers),
         AverageView |-> mean(Column(rows, "__true_view_frac")),
         StudentsViewing |->
             IF HasClassTotal
             THEN Divide(Val(uniq_viewers), class_total_students)
             ELSE NaN,
         Overall |->
             IF HasClassTotal
             THEN Divide(sum_view_seconds,
                         Times(dur_per_media, class_total_students[1]))
             ELSE NaN]

\* lines 168-205: echo_summary is built from the groups of df
Summarize ==
    /\ pc = "group"
    /\ LET media == MediaGroups(df)
       IN  echo_summary' = [e \in 1..Len(media) |-> SummaryRow(media[e])]
    /\ pc' = "summarized"
    /\ UNCHANGED <<canvas_order_df, es, order, m1, unmatched_idx, pairs,
                   mod_agg, module_table, summaryVars>>
    /\ UNCHANGED <<toolVars, normVars, greedyVars, gradeVars>>

NextSummary == RowFractions \/ Summarize

(***************************************************************************)
(* build_echo_tables: the Canvas join (lines 207-261).                     *)
(***************************************************************************)
\* _norm_series(s): s.fillna("").map(_norm_text)
_norm_series(col) ==
    [r \in 1..Len(col) |-> IF isna(col[r]) THEN _norm_text(<<>>)
                           ELSE _norm_text(col[r][1])]

\* es rows whose _ekey equals key, in es order
RowsWithKey(t, key) == { e \in 1..Len(t) : t[e]._ekey = key }

RECURSIVE Ascending(_)
Ascending(S) ==
    IF S = {} THEN <<>>
    ELSE LET x == CHOOSE y \in S : \A z \in S : y <= z
         IN  <<x>> \o Ascending(S \ {x})

\* The rows order.merge(es[...], left_on="_ckey", right_on="_ekey",
\* how="left") makes of catalog row c: one per es row with an equal key, or
\* one row of NaN metrics when there is none.
MergeRow(c, crow, t) ==
    LET hits == Ascending(RowsWithKey(t, crow._ckey))
    IN  IF hits = <<>>
        THEN << [cat |-> c, _ckey |-> crow._ckey,
                 module |-> crow.module,
                 module_position |-> crow.module_position,
                 MediaTitle |-> NaN, Viewers |-> NaN,
                 AverageView |-> NaN, Overall |-> NaN] >>
        ELSE [h \in 1..Len(hits) |->
                 [cat |-> c, _ckey |-> crow._ckey,
                  module |-> crow.module,
                  module_position |-> crow.module_position,
                  MediaTitle |-> t[hits[h]].MediaTitle,
                  Viewers |-> t[hits[h]].Viewers,
                  AverageView |-> t[hits[h]].AverageView,
                  Overall |-> t[hits[h]].Overall]]

RECURSIVE LeftMerge(_, _, _)
LeftMerge(c, ord, t) ==
    IF c > Len(ord) THEN <<>>
    ELSE MergeRow(c, ord[c], t) \o LeftMerge(c + 1, ord, t)

\* lines 221-236: keys on both sides, then the exact key join
ExactMerge ==
    /\ pc = "join"
    /\ LET ck == _norm_series(Column(canvas_order_df, "CanvasTitle"))
           ek == _norm_series(Column(echo_summary, "MediaTitle"))
           o  == [c \in 1..Len(canvas_order_df) |->
                     [module |-> canvas_order_df[c].module,
                      module_position |-> canvas_order_df[c].module_position,
                      CanvasTitle |-> canvas_order_df[c].CanvasTitle,
                      _ckey |-> ck[c]]]
           t  == [e \in 1..Len(echo_summary) |->
                     [MediaTitle |-> echo_summary[e].MediaTitle,
                      Viewers |-> echo_summary[e].Viewers,
                      AverageView |-> echo_summary[e].AverageView,
                      Overall |-> echo_summary[e].Overall,
                      _ekey |-> ek[e]]]
       IN  /\ order' = o
           /\ es' = t
           /\ m1' = LeftMerge(1, o, t)
    /\ pc' = "fuzzy"
    /\ UNCHANGED <<echo_summary, canvas_order_df, unmatched_idx, pairs,
                   mod_agg, module_table>>
    /\ UNCHANGED <<toolVars, normVars, greedyVars, summaryVars, gradeVars>>

\* m1.index[m1["Average View %"].isna()].tolist()
UnmatchedRows(t) == Ascending({ r \in 1..Len(t) : isna(t[r].AverageView) })

\* lines 239-243: the rows still without metrics go to _greedy_match
\* together with every key of es
FuzzyCall ==
    /\ pc = "fuzzy"
    /\ unmatched_idx' = UnmatchedRows(m1)
    /\ IF unmatched_idx' # <<>>
       THEN /\ ckeys' = [n \in 1..Len(unmatched_idx') |-> m1[unmatched_idx'[n]]._ckey]
            /\ ekeys' = Column(es, "_ekey")
            /\ candidates' = <<>>
            /\ pass' = "none"
            /\ gpc' = "gen"
            /\ pc' = "matching"
            /\ UNCHANGED <<scorer, k, used_e, used_c, chosen>>
       ELSE /\ pc' = "joined"
            /\ UNCHANGED greedyVars
    /\ UNCHANGED <<echo_summary, canvas_order_df, es, order, m1, pairs,
                   mod_agg, module_table>>
    /\ UNCHANGED <<toolVars, normVars, summaryVars, gradeVars>>

\* es.loc[es["_ekey"] == ek].iloc[0]
FirstRowWithKey(t, key) == t[CHOOSE e \in RowsWithKey(t, key) :
                                 \A e2 \in RowsWithKey(t, key) : e <= e2]

\* lines 246-261: m1 after the metrics of each pair's entity row are
\* written into the pair's catalog row
FillRows(t, ps) ==
    [r \in 1..Len(t) |->
        IF \E n \in 1..Len(ps) : unmatched_idx[ps[n][2]] = r
        THEN LET n    == CHOOSE x \in 1..Len(ps) : unmatched_idx[ps[x][2]] = r
                 erow == FirstRowWithKey(es, ekeys[ps[n][1]])
             IN  [t[r] EXCEPT !.MediaTitle = erow.MediaTitle,
                              !.Viewers = erow.Viewers,
                              !.AverageView = erow.AverageView,
                              !.Overall = erow.Overall]
        ELSE t[r]]

\* lines 243-261: pairs = _greedy_match(...) has returned
FillMatches ==
    /\ pc = "matching"
    /\ gpc = "returned"
    /\ pairs' = chosen
    /\ m1' = FillRows(m1, chosen)
    /\ pc' = "joined"
    /\ UNCHANGED <<echo_summary, canvas_order_df, es, order, unmatched_idx,
                   mod_agg, module_table>>
    /\ UNCHANGED <<toolVars, normVars, greedyVars, summaryVars, gradeVars>>

(***************************************************************************)
(* build_echo_tables: the module table (lines 266-292).                    *)
(***************************************************************************)
HasAverageView(row) == ~isna(row.AverageView)

\* line 267: have = m1.dropna(subset=["Average View %"])
have == SelectSeq(m1, HasAverageView)

\* Module names in the order Python compares strings
ModuleNames == <<"Week 1", "Week 2">>

NameIndex(name) == CHOOSE n \in 1..Len(ModuleNames) : ModuleNames[n] = name

\* groupby sorts the group keys: by module, then by module_position
KeyBefore(k1, k2) ==
    \/ NameIndex(k1[1]) < NameIndex(k2[1])
    \/ k1[1] = k2[1] /\ k1[2] < k2[2]

RECURSIVE SortedKeys(_)
SortedKeys(K) ==
    IF K = {} THEN <<>>
    ELSE LET least == CHOOSE x \in K : \A y \in K \ {x} : KeyBefore(x, y)
         IN  <<least>> \o SortedKeys(K \ {least})

InGroup(t, key) ==
    SelectSeq(t, LAMBDA row : <<row.module, row.module_position>> = key)

\* lines 273-280: have.groupby([module_col, "module_position"],
\* as_index=False).agg({... : "mean"}) with the columns renamed
GroupMeans(t) ==
    LET keys == SortedKeys({ <<t[r].module, t[r].module_position>> :
                               r \in 1..Len(t) })
    IN  [g \in 1..Len(keys) |->
            LET rows == InGroup(t, keys[g])
            IN  [Module |-> keys[g][1],
                 module_position |-> keys[g][2],
                 AverageView |-> mean(Column(rows, "AverageView")),
                 StudentsViewing |-> mean(Floats(Column(rows, "Viewers"))),
                 OverallView |-> mean(Column(rows, "Overall"))]]

RECURSIVE InsertByPosition(_, _)
InsertByPosition(sorted, row) ==
    IF sorted = <<>> THEN <<row>>
    ELSE IF Head(sorted).module_position <= row.module_position
         THEN <<Head(sorted)>> \o InsertByPosition(Tail(sorted), row)
         ELSE <<row>> \o sorted

\* Variant of SortByPosition that leaves the rows in group-key order.
SortByPositionSkipped(t) == t

\* line 281: .sort_values(["module_position"])
RECURSIVE SortByPosition(_)
SortByPosition(t) ==
    IF t = <<>> THEN <<>>
    ELSE InsertByPosition(SortByPosition(SubSeq(t, 1, Len(t) - 1)), t[Len(t)])

\* lines 283-292: module_position dropped, "# of Students" added
DropPosition(t) ==
    [g \in 1..Len(t) |->
        [Module |-> t[g].Module,
         AverageView |-> t[g].AverageView,
         StudentsViewing |-> t[g].StudentsViewing,
         OverallView |-> t[g].OverallView,
         Students |-> IF Truthy(class_total_students)
                      THEN class_total_students ELSE NaN]]

\* lines 266-292: the module table of the rows that have an Average View %
Aggregate ==
    /\ pc = "joined"
    /\ IF have = <<>>
       THEN mod_agg' = <<>> /\ module_table' = <<>>
       ELSE /\ mod_agg' = SortByPosition(GroupMeans(have))
            /\ module_table' = DropPosition(mod_agg')
    /\ pc' = "done"
    /\ UNCHANGED <<echo_summary, canvas_order_df, es, order, m1,
                   unmatched_idx, pairs>>
    /\ UNCHANGED <<toolVars, normVars, greedyVars, summaryVars, gradeVars>>

Next ==
    \/ ExactMerge
    \/ FuzzyCall
    \/ GenCandidates
    \/ Fallback
    \/ SortCandidates
    \/ SelectStep
    \/ ReturnChosen
    \/ FillMatches
    \/ Aggregate

(***************************************************************************)
(* Inputs of build_echo_tables                                             *)
(***************************************************************************)
MaxCat == 2

\* Media titles in the order groupby gives them (sorted as strings)
MediaTitlePool == << <<"A">>, <<"a">>, <<"b">> >>

CanvasTitles ==
    { <<"a">>,
      <<"a", " ", "(", "1", ":", "2", "3", ")">>,
      <<"b">>,
      <<"c">> }

\* A float that is not NaN is a ratio <<numerator, denominator>> in lowest
\* terms; the denominator 0 is the float inf.
Inf == Val(<<1, 0>>)

\* The metrics echo_summary holds for a media in a class of 4 students:
\* 2 viewers who watched half of it on average (a quarter of the class
\* total), or 4 viewers of a media whose rows all have Duration 0 ("Average
\* View %" is NaN and the overall ratio is a division by zero).
MediaMetrics ==
    { [Viewers |-> Val(2), AverageView |-> Val(<<1, 2>>),
        Overall |-> Val(<<1, 4>>)],
      [Viewers |-> Val(4), AverageView |-> NaN, Overall |-> Inf] }

\* The modules of the course, in Canvas order; two modules share a name
\* and the names are not in position order.
CanvasModules ==
    << [module |-> "Week 2", module_position |-> 1],
       [module |-> "Week 1", module_position |-> 2],
       [module |-> "Week 2", module_position |-> 3] >>

\* Scores of unequal keys, on both sides of FALLBACK_MIN and THRESHOLD
EchoScoreVals == {60, 75, 90}

EchoSummaries ==
    { [n \in 1..Len(ts) |-> [MediaTitle |-> Val(ts[n]),
                              Viewers |-> mm[n].Viewers,
                              AverageView |-> mm[n].AverageView,
                              Overall |-> mm[n].Overall]] :
        <<ts, mm>> \in UNION { {sub} \X [1..Len(sub) -> MediaMetrics] :
                                 sub \in { <<>>,
                                           <<MediaTitlePool[1]>>,
                                           <<MediaTitlePool[2]>>,
                                           <<MediaTitlePool[3]>>,
                                           <<MediaTitlePool[1], MediaTitlePool[2]>>,
                                           <<MediaTitlePool[1], MediaTitlePool[3]>>,
                                           <<MediaTitlePool[2], MediaTitlePool[3]>>,
                                           MediaTitlePool } } }

\* The video rows of build_order_df: modules in position order, each row
\* with the title of its video.
CanvasOrders ==
    UNION { { [r \in 1..n |-> [module |-> CanvasModules[ms[r]].module,
                               module_position |-> CanvasModules[ms[r]].module_position,
                               CanvasTitle |-> Val(ts[r])]] :
                ms \in { f \in [1..n -> 1..Len(CanvasModules)] :
                           \A a, b \in 1..n : a <= b => f[a] <= f[b] },
                ts \in [1..n -> CanvasTitles] } :
              n \in 1..MaxCat }

KeysOf(table, name) ==
    { _norm_text(table[r][name][1]) : r \in 1..Len(table) }

\* token_set_ratio is 0 when a key is empty, 100 on equal keys, and
\* symmetric; its values on unequal keys are inputs.
ScorersOn(EK, CK) ==
    LET unequal == { {x, y} : <<x, y>> \in { p \in EK \X CK :
                                   p[1] # p[2] /\ p[1] # <<>> /\ p[2] # <<>> } }
    IN  { [p \in EK \X CK |->
              IF p[1] = <<>> \/ p[2] = <<>> THEN 0
              ELSE IF p[1] = p[2] THEN 100
              ELSE g[{p[1], p[2]}]] : g \in [unequal -> EchoScoreVals] }

Init ==
    /\ echo_summary \in EchoSummaries
    /\ canvas_order_df \in CanvasOrders
    /\ scorer \in ScorersOn(KeysOf(echo_summary, "MediaTitle"),
                            KeysOf(canvas_order_df, "CanvasTitle"))
    /\ es = <<>> /\ order = <<>> /\ m1 = <<>> /\ unmatched_idx = <<>>
    /\ pairs = <<>> /\ mod_agg = <<>> /\ module_table = <<>>
    /\ df = <<>> /\ class_total_students = Val(4) /\ pc = "join"
    /\ IdleGrades
    /\ ekeys = <<>> /\ ckeys = <<>> /\ candidates = <<>>
    /\ pass = "none" /\ k = 0 /\ used_e = {} /\ used_c = {} /\ chosen = <<>>
    /\ gpc = "idle"
    /\ IdleNorm
    /\ IdleFind
    /\ IdleDedupe
    /\ IdleFetch
    /\ IdleWizard
    /\ IdleDeid
    /\ IdleCall

Spec == Init /\ [][Next]_vars

(***************************************************************************)
(* Inputs of the per-media summary (SpecSummary)                           *)
(***************************************************************************)
MaxRows == 2

\* Seconds of a duration cell and of a view-time cell after _to_seconds
Durations == {NaN, Val(0), Val(600)}

ViewTimes == {NaN, Val(0), Val(300)}

EchoRows ==
    { [Media |-> Val(t), UserName |-> Val(u), Duration |-> d, TotalViewTime |-> v] :
        t \in { MediaTitlePool[2], MediaTitlePool[3] },
        u \in {"u1", "u2"}, d \in Durations, v \in ViewTimes }

\* None, 0 or a class of 4 students
ClassTotals == {NaN, Val(0), Val(4)}

InitSummary ==
    /\ df \in UNION { [1..n -> EchoRows] : n \in 1..MaxRows }
    /\ class_total_students \in ClassTotals
    /\ echo_summary = <<>> /\ canvas_order_df = <<>>
    /\ es = <<>> /\ order = <<>> /\ m1 = <<>> /\ unmatched_idx = <<>>
    /\ pairs = <<>> /\ mod_agg = <<>> /\ module_table = <<>>
    /\ pc = "rows"
    /\ IdleGrades
    /\ IdleGreedy
    /\ IdleNorm
    /\ IdleFind
    /\ IdleDedupe
    /\ IdleFetch
    /\ IdleWizard
    /\ IdleDeid
    /\ IdleCall

SpecSummary == InitSummary /\ [][NextSummary]_vars

(***************************************************************************)
(* processors/grades_adapter.py: _clean_assignment_header and              *)
(* build_gradebook_tables (lines 146-204).                                 *)
(***************************************************************************)
\* str.isdigit(): not empty, digits only
IsDigitString(s) == s # <<>> /\ AllDigits(s)

\* lines 58-62: a trailing "(digits)" of 4 digits or more is removed
StripIdInParens(s) ==
    LET i == LastIndexOf(s, "(")
    IN  IF s[Len(s)] = ")" /\ i # 0
        THEN LET digits == SubSeq(s, i + 1, Len(s) - 1)
             IN  IF IsDigitString(digits) /\ Len(digits) >= 4
                 THEN rstrip(SubSeq(s, 1, i - 1))
                 ELSE s
        ELSE s

\* lines 65-68: a trailing "- digits" of 4 digits or more is removed
StripIdAfterDash(s) ==
    LET i == LastIndexOf(s, "-")
    IN  IF i # 0
        THEN LET right == strip(SubSeq(s, i + 1, Len(s)))
             IN  IF IsDigitString(right) /\ Len(right) >= 4
                 THEN strip(SubSeq(s, 1, i - 1))
                 ELSE s
        ELSE s

_clean_assignment_header(name) ==
    LET s == strip(name)
    IN  IF s = <<>> THEN s ELSE StripIdAfterDash(StripIdInParens(s))

\* line 115: the headers of the assignment columns, cleaned
assignment_cols ==
    [c \in 1..Len(gb_raw.columns) |-> _clean_assignment_header(gb_raw.columns[c])]

\* line 151: perc = earned.divide(points, axis=1)
perc ==
    [s \in 1..Len(gb_raw.students) |->
        [c \in 1..Len(gb_raw.columns) |->
            Divide(gb_raw.students[s][c], gb_raw.points[c])]]

PercOfColumn(c) == [s \in 1..Len(perc) |-> perc[s][c]]

\* perc.mask(perc == 0): a zero becomes NaN
MaskZero(cell) == IF cell = Val(<<0, 1>>) THEN NaN ELSE cell

\* perc > 0: false on NaN, true on inf
Positive(cell) == ~isna(cell) /\ cell[1][1] > 0

\* (perc > 0).mean(skipna=True): the share of true cells among all rows
ShareTrue(cells) ==
    IF cells = <<>> THEN NaN
    ELSE Val(Ratio(Cardinality({ n \in 1..Len(cells) : Positive(cells[n]) }),
                   Len(cells)))

\* lines 154-160: the three summary rows, one value per assignment column
GradeSummary ==
    /\ pc = "grades"
    /\ gradebook_summary_df' =
          [Average |->
               [c \in 1..Len(gb_raw.columns) |-> mean(PercOfColumn(c))],
           AverageExcludingZeros |->
               [c \in 1..Len(gb_raw.columns) |->
                   mean([s \in 1..Len(perc) |-> MaskZero(perc[s][c])])],
           PctTurnedIn |->
               [c \in 1..Len(gb_raw.columns) |-> ShareTrue(PercOfColumn(c))]]
    /\ pc' = "modules"
    /\ UNCHANGED <<gb_raw, fuzz_ratio, cols_for_mod, module_rows, gi,
                   module_assignment_metrics_df>>
    /\ UNCHANGED <<echo_summary, canvas_order_df, es, order, m1,
                   unmatched_idx, pairs, mod_agg, module_table, summaryVars>>
    /\ UNCHANGED <<toolVars, normVars, greedyVars>>

\* Canvas item types whose lower case contains "assignment"
AssignmentTypes == {"Assignment"}

\* lines 175-177: the catalog rows of assignments
canvas_assign ==
    SelectSeq(canvas_order_df, LAMBDA row : row.item_type \in AssignmentTypes)

\* Variant of GroupNames that keeps the modules in the order of their
\* first row.
RECURSIVE GroupNamesAsMet(_)
GroupNamesAsMet(t) ==
    IF t = <<>> THEN <<>>
    ELSE LET before == GroupNamesAsMet(SubSeq(t, 1, Len(t) - 1))
             name == t[Len(t)].module
         IN  IF \E n \in 1..Len(before) : before[n] = name
             THEN before ELSE Append(before, name)

\* line 181: the keys of canvas_assign.groupby("module"), sorted as strings
GroupNames(t) ==
    SelectSeq(ModuleNames, LAMBDA name : \E r \in 1..Len(t) : t[r].module = name)

\* line 187: process.extractOne(cleaned_title, gb_cols, scorer=fuzz.ratio),
\* the first of the best-scoring headers
BestColumn(title) ==
    CHOOSE c \in 1..Len(assignment_cols) :
        \A c2 \in 1..Len(assignment_cols) :
            \/ fuzz_ratio[<<title, assignment_cols[c]>>]
                 > fuzz_ratio[<<title, assignment_cols[c2]>>]
            \/ /\ fuzz_ratio[<<title, assignment_cols[c]>>]
                    = fuzz_ratio[<<title, assignment_cols[c2]>>]
               /\ c <= c2

\* lines 184-189: the header matched to a catalog title, if it scores 90+
MatchedColumns(title) ==
    LET cleaned_title == _clean_assignment_header(title)
        c == BestColumn(cleaned_title)
    IN  IF fuzz_ratio[<<cleaned_title, assignment_cols[c]>>] >= 90
        THEN {assignment_cols[c]} ELSE {}

\* Headers in the order Python compares strings
SortedHeaders ==
    << <<"H", "W", " ", "1">>, <<"H", "W", " ", "2">> >>

\* line 191: sorted(set(cols_for_mod)) of the rows of one module
ColsForMod(name) ==
    LET rows == SelectSeq(canvas_assign, LAMBDA row : row.module = name)
        hits  == UNION { MatchedColumns(rows[r].item_title_raw[1]) :
                           r \in { x \in 1..Len(rows) :
                                     ~isna(rows[x].item_title_raw) } }
    IN  SelectSeq(SortedHeaders, LAMBDA h : h \in hits)

ColumnOf(header) ==
    CHOOSE c \in 1..Len(assignment_cols) : assignment_cols[c] = header

\* gradebook_summary_df.loc[name, cols].mean()
SummaryMean(name, cols) ==
    mean([n \in 1..Len(cols) |-> gradebook_summary_df[name][ColumnOf(cols[n])]])

\* lines 181-200: one turn of the loop over the modules
ModuleStep ==
    /\ pc = "modules"
    /\ gi < Len(GroupNames(canvas_assign))
    /\ LET mod == GroupNames(canvas_assign)[gi + 1]
           cols == ColsForMod(mod)
       IN  /\ cols_for_mod' = cols
           /\ module_rows' =
                 IF cols # <<>>
                 THEN Append(module_rows,
                             [Module |-> mod,
                              AvgPctTurnedIn |-> SummaryMean("PctTurnedIn", cols),
                              AvgAverageExcludingZeros |->
                                  SummaryMean("AverageExcludingZeros", cols),
                              n_assignments |-> Len(cols)])
                 ELSE module_rows
    /\ gi' = gi + 1
    /\ UNCHANGED <<gb_raw, fuzz_ratio, gradebook_summary_df,
                   module_assignment_metrics_df, pc>>
    /\ UNCHANGED <<echo_summary, canvas_order_df, es, order, m1,
                   unmatched_idx, pairs, mod_agg, module_table, summaryVars>>
    /\ UNCHANGED <<toolVars, normVars, greedyVars>>

\* lines 202-204: the table is built from the collected rows
BuildModuleMetrics ==
    /\ pc = "modules"
    /\ gi = Len(GroupNames(canvas_assign))
    /\ module_assignment_metrics_df' = module_rows
    /\ pc' = "built"
    /\ UNCHANGED <<gb_raw, fuzz_ratio, gradebook_summary_df, cols_for_mod,
                   module_rows, gi>>
    /\ UNCHANGED <<echo_summary, canvas_order_df, es, order, m1,
                   unmatched_idx, pairs, mod_agg, module_table, summaryVars>>
    /\ UNCHANGED <<toolVars, normVars, greedyVars>>

NextGrades == GradeSummary \/ ModuleStep \/ BuildModuleMetrics

(***************************************************************************)
(* Inputs of build_gradebook_tables (SpecGrades)                           *)
(***************************************************************************)
MaxStudents == 1

MaxItems == 2

\* Headers of the assignment columns as Canvas exports them
GradeHeaders ==
    << <<"H", "W", " ", "1", " ", "(", "1", "2", "3", "4", "5", ")">>,
       <<"H", "W", " ", "2", " ", "(", "1", "2", "3", "4", "6", ")">> >>

\* Points possible of the first column: missing, 0 or 10
PointsPossible == {NaN, Val(0), Val(10)}

\* Points a student earned in the first column: missing, 0, 5 or 12
Earned == {NaN, Val(0), Val(5), Val(12)}

\* The second column is worth 10 points and every student earned 5
Gradebooks ==
    { [columns |-> GradeHeaders,
       points |-> <<p, Val(10)>>,
       students |-> [s \in 1..n |-> <<e[s], Val(5)>>]] :
        <<p, n, e>> \in UNION { {<<p, n, e>> : e \in [1..n -> Earned]} :
                                 <<p, n>> \in PointsPossible \X (0..MaxStudents) } }

\* Module items of the course: three assignments (one with its Canvas ID
\* in the title, one that is no column of the gradebook) and a page
ModuleItems ==
    { [item_type |-> "Assignment",
       item_title_raw |-> Val(<<"H", "W", " ", "1">>)],
      [item_type |-> "Assignment",
       item_title_raw |-> Val(<<"H", "W", " ", "1", " ", "-", " ",
                                 "1", "2", "3", "4", "5">>)],
      [item_type |-> "Assignment",
       item_title_raw |-> Val(<<"H", "W", " ", "3">>)],
      [item_type |-> "Page",
       item_title_raw |-> Val(<<"H", "W", " ", "2">>)] }

\* The rows of build_order_df: the items of the first two modules, in
\* position order
ItemOrders ==
    UNION { { [r \in 1..n |-> [module |-> CanvasModules[ms[r]].module,
                               module_position |-> CanvasModules[ms[r]].module_position,
                               item_type |-> it[r].item_type,
                               item_title_raw |-> it[r].item_title_raw]] :
                ms \in { f \in [1..n -> 1..2] :
                           \A a, b \in 1..n : a <= b => f[a] <= f[b] },
                it \in [1..n -> ModuleItems] } :
              n \in 1..MaxItems }

\* fuzz.ratio of unequal strings, on both sides of the cut at 90
RatioVals == {85, 95}

\* fuzz.ratio is 100 on equal strings and on no others
RatiosOn(T, C) ==
    { [p \in T \X C |-> IF p[1] = p[2] THEN 100 ELSE g[p]] :
        g \in [{ p \in T \X C : p[1] # p[2] } -> RatioVals] }

InitGrades ==
    /\ gb_raw \in Gradebooks
    /\ canvas_order_df \in ItemOrders
    /\ fuzz_ratio \in RatiosOn(
          { _clean_assignment_header(canvas_order_df[r].item_title_raw[1]) :
              r \in { x \in 1..Len(canvas_order_df) :
                        canvas_order_df[x].item_type \in AssignmentTypes } },
          { _clean_assignment_header(GradeHeaders[c]) : c \in 1..Len(GradeHeaders) })
    /\ gradebook_summary_df = <<>> /\ cols_for_mod = <<>> /\ module_rows = <<>>
    /\ gi = 0 /\ module_assignment_metrics_df = <<>>
    /\ echo_summary = <<>> /\ es = <<>> /\ order = <<>> /\ m1 = <<>>
    /\ unmatched_idx = <<>> /\ pairs = <<>> /\ mod_agg = <<>>
    /\ module_table = <<>> /\ df = <<>> /\ class_total_students = NaN
    /\ pc = "grades"
    /\ IdleGreedy
    /\ IdleNorm
    /\ IdleFind
    /\ IdleDedupe
    /\ IdleFetch
    /\ IdleWizard
    /\ IdleDeid
    /\ IdleCall

SpecGrades == InitGrades /\ [][NextGrades]_vars

(***************************************************************************)
(* Claims about the normalizer (SpecNorm)                                  *)
(***************************************************************************)
READ_ONLY_MARKER == <<" ", "(", "R", "e", "a", "d", " ", "O", "n", "l", "y", ")">>
DURATION_MARKER  == <<" ", "(", "1", "2", ":", "3", "4", ")">>
NUM_ID_MARKER    == <<" ", "-", " ", "1", "2", "3", "4", "5", "6">>

\* C3: title normalization is idempotent: for every input string x,
\* _norm_text(_norm_text(x)) equals _norm_text(x).
C3_NormIdempotent == Len(nOut) = 2 => nOut[2] = nOut[1]

\* C4: a base title followed by a "(Read Only)" marker, then a duration
\* marker, then a numeric-ID suffix normalizes to the key of the base title
\* alone; in particular the key of
\* "Intro Lecture (Read Only) (12:34) - 123456" is the key of "intro lecture".
C4_CompositeMarkersStripped ==
    \A b \in BaseTitles :
        (/\ nTitle = b \o READ_ONLY_MARKER \o DURATION_MARKER \o NUM_ID_MARKER
         /\ Len(nOut) >= 1)
        => /\ nOut[1] = _norm_text(b)
           /\ (b = INTRO_LECTURE => nOut[1] = INTRO_LECTURE)

(***************************************************************************)
(* Claims about _greedy_match (SpecGreedy, SpecTopK)                       *)
(***************************************************************************)
Score(i, j) == FUZZY_SCORER(ekeys[i], ckeys[j])

InChosen(c) == \E n \in 1..Len(chosen) : chosen[n] = c

InCandidates(c) == \E n \in 1..Len(candidates) : candidates[n] = c

Returned == gpc = "returned"

\* C5: every pair returned by _greedy_match scores at least fallback_min
\* (70), in the primary pass and in the fallback pass; a pair scoring 65 is
\* never matched.
C5_NoPairBelowFallbackMin ==
    \A n \in 1..Len(chosen) :
        /\ chosen[n][3] = Score(chosen[n][1], chosen[n][2])
        /\ chosen[n][3] >= FALLBACK_MIN

C5_Witness ==
    /\ Returned
    /\ pass = "fallback"
    /\ chosen # <<>>
    /\ \E i \in 1..Len(ekeys), j \in 1..Len(ckeys) :
          Score(i, j) < FALLBACK_MIN /\ i \notin used_e

\* C6: the fallback pass runs only when the primary pass produced no
\* candidate: a returned pair scoring below the threshold (80) occurs only
\* if no (entity, catalog) pair scored >= 80, so the result never holds both
\* a pair scoring >= 80 and a pair scoring < 80.
C6_FallbackOnlyWhenPrimaryEmpty ==
    /\ (pass = "fallback") =>
          \A i \in 1..Len(ekeys), j \in 1..Len(ckeys) : Score(i, j) < THRESHOLD
    /\ (\E n \in 1..Len(chosen) : chosen[n][3] < THRESHOLD) =>
          /\ pass = "fallback"
          /\ \A n \in 1..Len(chosen) : chosen[n][3] < THRESHOLD

C6_Witness ==
    /\ Returned
    /\ pass = "fallback"
    /\ \E n \in 1..Len(chosen) : chosen[n][3] < THRESHOLD

\* C7: a candidate is accepted only if neither of its indices was consumed
\* by an earlier acceptance: after every step of the selection loop no
\* first-position index and no second-position index occurs twice in the
\* accepted list, and the consumed sets are exactly the accepted indices.
C7_ChosenInjective ==
    /\ \A m, n \in 1..Len(chosen) :
          m # n => chosen[m][1] # chosen[n][1] /\ chosen[m][2] # chosen[n][2]
    /\ used_e = { chosen[n][1] : n \in 1..Len(chosen) }
    /\ used_c = { chosen[n][2] : n \in 1..Len(chosen) }

C7_Witness ==
    /\ Returned
    /\ Len(chosen) >= 2
    /\ Len(candidates) > Len(chosen)

\* Candidate d has priority over candidate c: a higher score, or an equal
\* score and met earlier in the scan (entity keys in list order, the
\* choices of one entity key in list order among equal scores).
Ahead(d, c) ==
    \/ d[3] > c[3]
    \/ /\ d[3] = c[3]
       /\ \/ d[1] < c[1]
          \/ d[1] = c[1] /\ d[2] < c[2]

\* A returned pair with priority over c holds the first-position (entity)
\* index of c ...
EntityClaimedAhead(c) ==
    \E n \in 1..Len(chosen) : Ahead(chosen[n], c) /\ chosen[n][1] = c[1]

\* ... or the second-position (catalog) index of c.
CatalogClaimedAhead(c) ==
    \E n \in 1..Len(chosen) : Ahead(chosen[n], c) /\ chosen[n][2] = c[2]

\* C8 as stated: if two candidates exist for the same catalog index, one
\* scoring higher than the other (95 against 90), and the entity of the
\* higher one is not claimed by a returned pair of higher priority
\* elsewhere, the resolver returns the higher one and does not return the
\* lower one.
C8_GreedyPriorityAsStated ==
    Returned =>
        \A p1, p2 \in 1..Len(candidates) :
            (/\ candidates[p1][2] = candidates[p2][2]
             /\ candidates[p1][3] > candidates[p2][3]
             /\ ~EntityClaimedAhead(candidates[p1]))
            => InChosen(candidates[p1]) /\ ~InChosen(candidates[p2])

\* C8 amended: if two candidates exist for the same catalog index, one
\* scoring higher than the other, and neither the entity nor the catalog
\* index of the higher one is claimed by a returned pair of higher priority
\* (a higher score, or an equal score met earlier in the scan), the
\* resolver returns the higher one and not the lower one.
C8_GreedyPriority ==
    Returned =>
        \A p1, p2 \in 1..Len(candidates) :
            (/\ candidates[p1][2] = candidates[p2][2]
             /\ candidates[p1][3] > candidates[p2][3]
             /\ ~EntityClaimedAhead(candidates[p1])
             /\ ~CatalogClaimedAhead(candidates[p1]))
            => InChosen(candidates[p1]) /\ ~InChosen(candidates[p2])

C8_Witness ==
    /\ Returned
    /\ \E p1, p2 \in 1..Len(candidates) :
          /\ candidates[p1][2] = candidates[p2][2]
          /\ candidates[p1][3] = 95
          /\ candidates[p2][3] = 90
          /\ ~EntityClaimedAhead(candidates[p1])
          /\ ~CatalogClaimedAhead(candidates[p1])
          /\ InChosen(candidates[p1])

\* Rank of choice j in the scores of entity key i (1 is best; equal scores
\* in list order).
RankAmongCatalogKeys(i, j) ==
    1 + Cardinality({ j2 \in 1..Len(ckeys) :
                        \/ Score(i, j2) > Score(i, j)
                        \/ Score(i, j2) = Score(i, j) /\ j2 < j })

\* Rank of entity key i in the scores of choice j.
RankAmongEntityKeys(j, i) ==
    1 + Cardinality({ i2 \in 1..Len(ekeys) :
                        \/ Score(i2, j) > Score(i, j)
                        \/ Score(i2, j) = Score(i, j) /\ i2 < i })

\* C9 as stated: candidate generation is per unmatched catalog key: any
\* (catalog, entity) pair that scores >= 80 and is among that catalog key's
\* 6 best-scoring entity keys is a candidate of the primary pass.
C9_TopKPerCatalogKeyAsStated ==
    pass = "primary" =>
        \A i \in 1..Len(ekeys), j \in 1..Len(ckeys) :
            (Score(i, j) >= THRESHOLD /\ RankAmongEntityKeys(j, i) <= TOP_K)
            => InCandidates(<<i, j, Score(i, j)>>)

\* C9 amended: candidate generation is per entity key: for every entity key
\* the resolver ranks all unmatched catalog keys by score, retains that
\* entity key's top-K (K = 6) catalog keys regardless of absolute score, and
\* only then filters by the threshold; the candidates of the primary pass
\* are exactly the pairs that score >= 80 and are among the entity key's 6
\* best-scoring catalog keys (equal scores ranked in list order).
C9_TopKPerEntityKey ==
    pass = "primary" =>
        /\ \A i \in 1..Len(ekeys), j \in 1..Len(ckeys) :
              InCandidates(<<i, j, Score(i, j)>>)
              <=> (Score(i, j) >= THRESHOLD /\ RankAmongCatalogKeys(i, j) <= TOP_K)
        /\ \A n \in 1..Len(candidates) :
              candidates[n][3] = Score(candidates[n][1], candidates[n][2])

C9_Witness ==
    /\ pass = "primary"
    /\ \E i \in 1..Len(ekeys), j, j2 \in 1..Len(ckeys) :
          /\ Score(i, j) >= THRESHOLD
          /\ RankAmongCatalogKeys(i, j) = TOP_K
          /\ InCandidates(<<i, j, Score(i, j)>>)
          /\ Score(i, j2) >= THRESHOLD
          /\ RankAmongCatalogKeys(i, j2) > TOP_K
          /\ ~InCandidates(<<i, j2, Score(i, j2)>>)

\* C10 as stated: when the fallback pass runs, it produces at most one
\* candidate per unmatched catalog key.
C10_OneFallbackCandidatePerCatalogKeyAsStated ==
    pass = "fallback" =>
        \A p, q \in 1..Len(candidates) :
            candidates[p][2] = candidates[q][2] => p = q

\* C10 amended: when the fallback pass runs, it produces at most one
\* candidate per entity key: that entity key's single best-scoring unmatched
\* catalog key (the first of equals), kept only if its score is at least 70.
C10_OneFallbackCandidatePerEntityKey ==
    pass = "fallback" =>
        /\ \A p, q \in 1..Len(candidates) :
              candidates[p][1] = candidates[q][1] => p = q
        /\ \A n \in 1..Len(candidates) :
              LET i == candidates[n][1]
                  j == candidates[n][2]
              IN  /\ candidates[n][3] = Score(i, j)
                  /\ candidates[n][3] >= FALLBACK_MIN
                  /\ RankAmongCatalogKeys(i, j) = 1
        /\ \A i \in 1..Len(ekeys) :
              (\E j \in 1..Len(ckeys) : Score(i, j) >= FALLBACK_MIN)
              => \E n \in 1..Len(candidates) : candidates[n][1] = i

C10_Witness ==
    /\ Returned
    /\ pass = "fallback"
    /\ \E p, q \in 1..Len(candidates) :
          p # q /\ candidates[p][2] = candidates[q][2]
    /\ \E i \in 1..Len(ekeys) : \A n \in 1..Len(candidates) : candidates[n][1] # i

(***************************************************************************)
(* Claims about the Canvas join of build_echo_tables (Spec)                *)
(***************************************************************************)
\* The m1 rows that carry the metrics of the es row e
RowsFedBy(e) == { r \in 1..Len(m1) : m1[r].MediaTitle = es[e].MediaTitle }

\* The m1 rows of catalog row c that carry the metrics of some entity
FedRowsOf(c) == { r \in 1..Len(m1) : m1[r].cat = c /\ ~isna(m1[r].MediaTitle) }

Min(a, b) == IF a < b THEN a ELSE b

\* C1: after the exact key join followed by the fuzzy pass the resolved
\* mapping is one-to-one for any inputs, duplicate canonical keys included:
\* every echo_summary entity supplies its metrics to at most one catalog
\* row, and every catalog row receives the metrics of at most one entity.
C1_ResolvedMappingOneToOne ==
    pc = "joined" =>
        /\ \A e \in 1..Len(es) : Cardinality(RowsFedBy(e)) <= 1
        /\ \A c \in 1..Len(order) : Cardinality(FedRowsOf(c)) <= 1

\* C2: the exact-match step uses each catalog index and each entity index
\* at most once: the number of exact pairs for a key is the minimum of the
\* number of catalog rows and the number of entities with that key, and no
\* catalog row is duplicated in the merged table.
C2_ExactMatchEachIndexOnce ==
    pc = "fuzzy" =>
        /\ \A e \in 1..Len(es) : Cardinality(RowsFedBy(e)) <= 1
        /\ \A c \in 1..Len(order) :
              Cardinality({ r \in 1..Len(m1) : m1[r].cat = c }) = 1
        /\ \A c \in 1..Len(order) :
              LET key == order[c]._ckey
              IN  Cardinality({ r \in 1..Len(m1) :
                                  m1[r]._ckey = key /\ ~isna(m1[r].MediaTitle) })
                  = Min(Cardinality({ c2 \in 1..Len(order) : order[c2]._ckey = key }),
                        Cardinality(RowsWithKey(es, key)))

\* The m1 rows as the exact key join left them
ExactJoined == LeftMerge(1, order, es)

\* The m1 rows handed to the fuzzy pass
Residue == { unmatched_idx[n] : n \in 1..Len(unmatched_idx) }

\* C11: a catalog row that obtained an exact-key match is never handed to
\* the fuzzy resolver and keeps that entity's metrics after the fuzzy pass;
\* only catalog rows with no exact match form the residue passed to fuzzy
\* resolution.
C11_ExactRowsBypassFuzzy ==
    pc \in {"matching", "joined"} =>
        \A r \in 1..Len(m1) :
            IF isna(ExactJoined[r].MediaTitle)
            THEN pc = "matching" => r \in Residue
            ELSE r \notin Residue /\ m1[r] = ExactJoined[r]

(***************************************************************************)
(* Claims about the module table of build_echo_tables (Spec)               *)
(***************************************************************************)
Done == pc = "done"

\* A row of m1 that carries the metrics of an entity
Matched(row) == ~isna(row.MediaTitle)

ModuleRows(name) == { g \in 1..Len(module_table) : module_table[g].Module = name }

\* C12: the media module table has exactly one row for each distinct module
\* name that has at least one matched catalog item, and no row for a module
\* none of whose catalog items was matched.
C12_OneRowPerMatchedModule ==
    Done =>
        \A c \in 1..Len(order) :
            LET name == order[c].module
            IN  IF \E r \in 1..Len(m1) : m1[r].module = name /\ Matched(m1[r])
                THEN Cardinality(ModuleRows(name)) = 1
                ELSE ModuleRows(name) = {}

\* The matched rows of m1 in the module of row g of mod_agg
MatchedRowsOf(g) ==
    SelectSeq(m1, LAMBDA row : /\ row.module = mod_agg[g].Module
                               /\ row.module_position = mod_agg[g].module_position
                               /\ Matched(row))

\* C13: each per-module mean in the media module table is the arithmetic
\* mean over only the matched rows of that module with a non-null value for
\* that metric; null and unmatched rows are excluded and never counted as
\* zero (matched values [0.5, null, 0.7] give 0.6, not 0.4).
C13_MeansOverMatchedNonNull ==
    Done =>
        \A g \in 1..Len(mod_agg) :
            LET rows == MatchedRowsOf(g)
            IN  /\ module_table[g].AverageView
                     = mean(Column(rows, "AverageView"))
                /\ module_table[g].StudentsViewing
                     = mean(Floats(Column(rows, "Viewers")))
                /\ module_table[g].OverallView
                     = mean(Column(rows, "Overall"))

\* C14: the rows of the media module table returned by build_echo_tables
\* are in ascending module_position order (for any two rows, the earlier
\* row's position is <= the later row's), independent of the lexical order
\* of the module names.
C14_ModuleTableInPositionOrder ==
    Done =>
        /\ Len(module_table) = Len(mod_agg)
        /\ \A g \in 1..Len(mod_agg) : module_table[g].Module = mod_agg[g].Module
        /\ \A g1, g2 \in 1..Len(mod_agg) :
              g1 < g2 => mod_agg[g1].module_position <= mod_agg[g2].module_position

C14_Witness ==
    /\ Done
    /\ Len(module_table) >= 2
    /\ NameIndex(module_table[1].Module) > NameIndex(module_table[2].Module)

(***************************************************************************)
(* Claims about the per-media summary of build_echo_tables (SpecSummary)   *)
(***************************************************************************)
Summarized == pc = "summarized"

ZeroOrMissing(cell) == isna(cell) \/ cell[1] <= 0

Infinite(cell) == ~isna(cell) /\ cell[1][2] = 0

\* C17: a derived ratio whose denominator is zero or missing is an explicit
\* indeterminate (missing) value, never infinity: in particular
\* "% of Video Viewed Overall" of a media is indeterminate when the media
\* duration is 0 or missing, for any view-seconds and any positive
\* total-enrolled count.
C17_ZeroDenominatorIndeterminate ==
    Summarized =>
        \A e \in 1..Len(echo_summary) :
            /\ ~Infinite(echo_summary[e].Overall)
            /\ ~Infinite(echo_summary[e].StudentsViewing)
            /\ ~Infinite(echo_summary[e].AverageView)
            /\ (HasClassTotal /\ ZeroOrMissing(echo_summary[e].VideoDuration))
               => isna(echo_summary[e].Overall)

\* The row-level fraction of a row whose duration is positive, NaN otherwise
GuardedFraction(row) ==
    IF ZeroOrMissing(row.Duration) THEN NaN
    ELSE Divide(row.TotalViewTime, row.Duration)

\* C18: a row whose duration is 0 (or missing) with nonzero view-seconds
\* yields an indeterminate row-level view fraction, which is excluded from
\* the media's "Average View %" mean; a media whose rows all have duration
\* <= 0 has an indeterminate "Average View %".
C18_ViewFractionGuard ==
    /\ pc \in {"group", "summarized"} =>
          \A r \in 1..Len(df) :
              ZeroOrMissing(df[r].Duration) => isna(df[r].__true_view_frac)
    /\ Summarized =>
          \A e \in 1..Len(echo_summary) :
              LET rows == RowsOfMedia(df, echo_summary[e].MediaTitle[1])
              IN  /\ echo_summary[e].AverageView
                       = mean([r \in 1..Len(rows) |-> GuardedFraction(rows[r])])
                  /\ (\A r \in 1..Len(rows) : ZeroOrMissing(rows[r].Duration))
                     => isna(echo_summary[e].AverageView)

C18_Witness ==
    /\ Summarized
    /\ \E e \in 1..Len(echo_summary) :
          LET rows == RowsOfMedia(df, echo_summary[e].MediaTitle[1])
          IN  /\ \E r \in 1..Len(rows) :
                    rows[r].Duration = Val(0) /\ rows[r].TotalViewTime = Val(300)
              /\ \E r \in 1..Len(rows) :
                    rows[r].Duration = Val(600) /\ rows[r].TotalViewTime = Val(300)
              /\ echo_summary[e].AverageView = Val(<<1, 2>>)

(***************************************************************************)
(* Claims about build_gradebook_tables (SpecGrades)                        *)
(***************************************************************************)
Built == pc = "built"

\* The Canvas position of the module of that name
PositionOf(name) ==
    LET ps == { canvas_order_df[r].module_position :
                  r \in { x \in 1..Len(canvas_order_df) :
                            canvas_order_df[x].module = name } }
    IN  CHOOSE p \in ps : \A q \in ps : p <= q

TitledItems == { r \in 1..Len(canvas_assign) : ~isna(canvas_assign[r].item_title_raw) }

ColumnsOfItem(r) == MatchedColumns(canvas_assign[r].item_title_raw[1])

\* C16: the assignment pipeline resolves a one-to-one correspondence: no
\* gradebook assignment column is matched to more than one catalog
\* assignment item (within or across modules), and no catalog item is
\* matched to more than one column.
C16_AssignmentMatchOneToOne ==
    Built =>
        /\ \A r \in TitledItems : Cardinality(ColumnsOfItem(r)) <= 1
        /\ \A r1, r2 \in TitledItems :
              r1 # r2 => ColumnsOfItem(r1) \cap ColumnsOfItem(r2) = {}
        /\ \A g1, g2 \in 1..Len(module_rows) :
              g1 # g2 => { h \in Range(SortedHeaders) :
                             /\ h \in Range(ColsForMod(module_rows[g1].Module))
                             /\ h \in Range(ColsForMod(module_rows[g2].Module)) } = {}

SummaryValues(c) ==
    { gradebook_summary_df.Average[c],
      gradebook_summary_df.AverageExcludingZeros[c],
      gradebook_summary_df.PctTurnedIn[c] }

\* C19: a student instance whose column has zero or missing points-possible
\* yields an indeterminate ratio that is excluded from the "Average" and
\* "Average Excluding Zeros" means and is not counted as turned in; no
\* summary value is ever infinite.
C19_ZeroPointsIndeterminate ==
    pc \in {"modules", "built"} =>
        \A c \in 1..Len(gb_raw.columns) :
            /\ \A v \in SummaryValues(c) : ~Infinite(v)
            /\ ZeroOrMissing(gb_raw.points[c]) =>
                  /\ \A s \in 1..Len(perc) : isna(perc[s][c])
                  /\ isna(gradebook_summary_df.Average[c])
                  /\ isna(gradebook_summary_df.AverageExcludingZeros[c])
                  /\ gradebook_summary_df.PctTurnedIn[c] \in {NaN, Val(<<0, 1>>)}

\* C20: for every assignment column and any earned / points-possible
\* values, the three summary values "Average", "Average Excluding Zeros"
\* and "% Turned In" are each either indeterminate or a fraction in the
\* closed interval [0,1].
C20_SummaryValuesInUnitInterval ==
    pc \in {"modules", "built"} =>
        \A c \in 1..Len(gb_raw.columns) :
            \A v \in SummaryValues(c) :
                isna(v) \/ (v[1][2] # 0 /\ 0 <= v[1][1] /\ v[1][1] <= v[1][2])


(***************************************************************************)
(* Column location: _find_col of echo_adapter.py                           *)
(***************************************************************************)
\* CANDIDATES["media"]
CANDIDATES_media ==
    << <<"m", "e", "d", "i", "a", " ", "n", "a", "m", "e">>,
       <<"m", "e", "d", "i", "a", " ", "t", "i", "t", "l", "e">>,
       <<"v", "i", "d", "e", "o", " ", "t", "i", "t", "l", "e">>,
       <<"t", "i", "t", "l", "e">>,
       <<"n", "a", "m", "e">> >>

\* CANDIDATES["duration"]
CANDIDATES_duration ==
    << <<"d", "u", "r", "a", "t", "i", "o", "n">>,
       <<"v", "i", "d", "e", "o", " ", "d", "u", "r", "a", "t", "i", "o", "n">>,
       <<"m", "e", "d", "i", "a", " ", "d", "u", "r", "a", "t", "i", "o", "n">>,
       <<"l", "e", "n", "g", "t", "h">> >>

\* str.lower(): every character lowered, one after the other
RECURSIVE str_lower(_)
str_lower(s) ==
    IF s = <<>> THEN <<>> ELSE lower(Head(s)) \o str_lower(Tail(s))

\* w in k
IsSubstring(w, lk) ==
    \E i \in 0..(Len(lk) - Len(w)) : SubSeq(lk, i + 1, i + Len(w)) = w

\* low = {c.lower(): c for c in df.columns}: the keys stay in the order of
\* their first appearance, a later column with the same key replaces the value
RECURSIVE LowerMap(_, _)
LowerMap(cols, low) ==
    IF cols = <<>> THEN low
    ELSE LET c    == Head(cols)
             lk   == str_lower(c)
             at   == { i \in 1..Len(low) : low[i].key = lk }
         IN  LowerMap(Tail(cols),
                      IF at = {} THEN Append(low, [key |-> lk, value |-> c])
                      ELSE [i \in 1..Len(low) |->
                              IF i \in at THEN [key |-> lk, value |-> c]
                              ELSE low[i]])

\* for w in want: if w in low
ExactCandidates(low, cands) ==
    { j \in 1..Len(cands) : \E i \in 1..Len(low) : low[i].key = cands[j] }

\* for k, v in low.items(): if any(w in k for w in want)
SubstringEntries(low, cands) ==
    { i \in 1..Len(low) :
        \E j \in 1..Len(cands) : IsSubstring(cands[j], low[i].key) }

LeastOf(S) == CHOOSE x \in S : \A y \in S : x <= y

\* return low[w] / return v
Returned_(header) ==
    [kind |-> "return", value |-> Val(header), need |-> <<>>, available |-> <<>>]

\* return None
ReturnedNone ==
    [kind |-> "return", value |-> NaN, need |-> <<>>, available |-> <<>>]

\* raise KeyError(f"... need one of: {list(want)}\nAvailable: {list(df.columns)}")
MissingColumn(cols, cands) ==
    [kind |-> "KeyError", value |-> NaN, need |-> cands, available |-> cols]

\* if required: raise
RaisesAlways(req) == TRUE
Raises(req) == req

_find_col(cols, cands, req) ==
    LET low   == LowerMap(cols, <<>>)
        exact == ExactCandidates(low, cands)
        sub   == SubstringEntries(low, cands)
    IN  IF exact # {}
        THEN LET w == cands[LeastOf(exact)]
                 i == CHOOSE x \in 1..Len(low) : low[x].key = w
             IN  Returned_(low[i].value)
        ELSE IF sub # {} THEN Returned_(low[LeastOf(sub)].value)
        ELSE IF Raises(req) THEN MissingColumn(cols, cands)
        ELSE ReturnedNone

\* One call of _find_col
FindCol ==
    /\ found.kind = "idle"
    /\ found' = _find_col(columns, want, required)
    /\ UNCHANGED <<columns, want, required>>
    /\ UNCHANGED <<dedupeVars, fetchVars, wizardVars, deidVars, callVars,
                   normVars, greedyVars, echoVars>>

NextFind == FindCol

\* Inputs of SpecFind ----------------------------------------------------
MaxCols == 3

HeaderPool ==
    { <<"T", "i", "t", "l", "e">>,
      <<"T", "I", "T", "L", "E">>,
      <<"M", "e", "d", "i", "a", " ", "N", "a", "m", "e">>,
      <<"R", "e", "n", "a", "m", "e">>,
      <<"R", "E", "N", "A", "M", "E">>,
      <<"D", "u", "r", "a", "t", "i", "o", "n">>,
      <<"D", "a", "t", "e">> }

\* Column lists: distinct headers, in any order
ColumnLists ==
    { c \in UNION { [1..n -> HeaderPool] : n \in 0..MaxCols } :
        \A i, j \in 1..Len(c) : i # j => c[i] # c[j] }

InitFind ==
    /\ columns \in ColumnLists
    /\ want \in {CANDIDATES_media, CANDIDATES_duration}
    /\ required \in BOOLEAN
    /\ found = [kind |-> "idle", value |-> <<>>, need |-> <<>>, available |-> <<>>]
    /\ IdleNorm
    /\ IdleGreedy
    /\ IdleEcho
    /\ IdleDedupe
    /\ IdleFetch
    /\ IdleWizard
    /\ IdleDeid
    /\ IdleCall

SpecFind == InitFind /\ [][NextFind]_vars

\* C21: the call fails with the missing-column error, listing the candidates
\* sought and the headers present, exactly when the column is required and no
\* header equals or contains a candidate once lowercased; an optional column
\* in that situation gives None and no error
Located ==
    \E i \in 1..Len(columns), j \in 1..Len(want) :
        \/ str_lower(columns[i]) = want[j]
        \/ IsSubstring(want[j], str_lower(columns[i]))

C21_MissingColumnError ==
    found.kind # "idle" =>
        /\ found.kind = "KeyError" <=> (required /\ ~Located)
        /\ found.kind = "KeyError" =>
               /\ found.need = want
               /\ found.available = columns
        /\ (~required /\ ~Located) =>
               /\ found.kind = "return"
               /\ found.value = NaN

C21_Witness ==
    /\ found.kind = "KeyError"
    /\ Len(columns) = 2

C21_WitnessOptional ==
    /\ found.kind = "return"
    /\ found.value = NaN
    /\ Len(columns) = 2

\* C29: an exact match wins over a substring match: when some candidate
\* equals a lowercased header the call returns a header equal to the earliest
\* such candidate; otherwise it returns the first header, in column order,
\* that contains a candidate
HasExact ==
    \E i \in 1..Len(columns), j \in 1..Len(want) :
        str_lower(columns[i]) = want[j]

EarliestExact ==
    want[LeastOf({ j \in 1..Len(want) :
                     \E i \in 1..Len(columns) : str_lower(columns[i]) = want[j] })]

FirstContaining ==
    columns[LeastOf({ i \in 1..Len(columns) :
                        \E j \in 1..Len(want) :
                            IsSubstring(want[j], str_lower(columns[i])) })]

C29_ExactBeforeSubstring ==
    (found.kind # "idle" /\ Located) =>
        /\ found.kind = "return"
        /\ ~isna(found.value)
        /\ HasExact => str_lower(found.value[1]) = EarliestExact
        /\ ~HasExact => found.value[1] = FirstContaining


(***************************************************************************)
(* Unique assignment titles: CanvasService._dedupe_titles of canvas.py     *)
(***************************************************************************)
DigitChars == <<"0", "1", "2", "3", "4", "5", "6", "7", "8", "9">>

\* str(n) of a natural number
RECURSIVE ToDecimal(_)
ToDecimal(n) ==
    IF n < 10 THEN <<DigitChars[n + 1]>>
    ELSE ToDecimal(n \div 10) \o <<DigitChars[(n % 10) + 1]>>

\* title or "Assignment"
BaseTitle(title) ==
    IF title = <<>>
    THEN <<"A", "s", "s", "i", "g", "n", "m", "e", "n", "t">>
    ELSE title

\* seen.get(base, 0)
SeenCount(seen, base) == IF base \in DOMAIN seen THEN seen[base] ELSE 0

\* f"{base} ({count + 1})"
Numbered(base, count) == base \o <<" ", "(">> \o ToDecimal(count + 1) \o <<")">>

UniqueTitle(base, count) == IF count = 0 THEN base ELSE Numbered(base, count)

\* The loop over the pairs, carrying seen and out
RECURSIVE DedupeLoop(_, _, _)
DedupeLoop(rest, seen, acc) ==
    IF rest = <<>> THEN acc
    ELSE LET aid    == Head(rest)[1]
             base   == BaseTitle(Head(rest)[2])
             count  == SeenCount(seen, base)
             unique == UniqueTitle(base, count)
             seen1  == (base :> (count + 1)) @@ seen
             seen2  == (unique :> 1) @@ seen1
         IN  DedupeLoop(Tail(rest), seen2, Append(acc, <<aid, unique>>))

_dedupe_titles(pairs_in) == DedupeLoop(pairs_in, <<>>, <<>>)

\* One call of _dedupe_titles
DedupeTitles ==
    /\ dpc = "call"
    /\ out' = _dedupe_titles(titles)
    /\ dpc' = "returned"
    /\ UNCHANGED titles
    /\ UNCHANGED <<findVars, fetchVars, wizardVars, deidVars, callVars,
                   normVars, greedyVars, echoVars>>

NextDedupe == DedupeTitles

\* Inputs of SpecDedupe --------------------------------------------------
MaxTitles == 3

\* Cleaned assignment names: "HW", "HW (2)" and a missing name
TitlePool ==
    { <<"H", "W">>, <<"H", "W", " ", "(", "2", ")">>, <<>> }

\* Assignment ids
IdPool == {3, 5, 7, 9}

\* Lists of (id, title) pairs with distinct ids
TitleLists ==
    { t \in UNION { [1..n -> IdPool \X TitlePool] : n \in 0..MaxTitles } :
        \A i, j \in 1..Len(t) : i # j => t[i][1] # t[j][1] }

InitDedupe ==
    /\ titles \in TitleLists
    /\ out = <<>>
    /\ dpc = "call"
    /\ IdleNorm
    /\ IdleGreedy
    /\ IdleEcho
    /\ IdleFind
    /\ IdleFetch
    /\ IdleWizard
    /\ IdleDeid
    /\ IdleCall

SpecDedupe == InitDedupe /\ [][NextDedupe]_vars

\* C24: the returned list has the length of the input, carries the ids in
\* input order, and its titles are pairwise distinct
C24_DedupedTitlesDistinct ==
    dpc = "returned" =>
        /\ Len(out) = Len(titles)
        /\ \A i \in 1..Len(out) : out[i][1] = titles[i][1]
        /\ \A i, j \in 1..Len(out) : i # j => out[i][2] # out[j][2]


(***************************************************************************)
(* Echo360Service._fetch_with_fallback and _get_all of echo360.py          *)
(***************************************************************************)
\* What the server answers to one page request: a page of items with or
\* without a link to a next page, or an error status; the transport can
\* fail before any answer arrives
PageItems == {<<>>, <<"a">>, <<"b">>}
ErrorStatuses == {404, 500}

\* Pages a fetch may take before the server stops linking a next one
MaxPages == 3

\* A request and its answer: a page with a next link, a last page, an error
\* status, or no response at all (status 0)
Request(endpoint, answer, status) ==
    [endpoint |-> endpoint, answer |-> answer, status |-> status]

PagesOf(endpoint) ==
    Cardinality({ i \in 1..Len(requests) : requests[i].endpoint = endpoint })

\* if exc.response.status_code != 404: raise
FallsBackOnAnyStatus(status) == TRUE
FallsBack(status) == status = 404

\* resp.raise_for_status() passes; out.extend(items); next_url is set
\* (the fetch is the one of the sections url or the one of the courses url)
PageWithNext ==
    /\ fpc \in {"sections", "courses"}
    /\ PagesOf(fpc) + 1 < MaxPages
    /\ \E items \in PageItems :
          /\ requests' = Append(requests, Request(fpc, "next", 200))
          /\ fetched' = fetched \o items
    /\ UNCHANGED <<outcome, fpc>>
    /\ UNCHANGED <<findVars, dedupeVars, wizardVars, deidVars, callVars,
                   normVars, greedyVars, echoVars>>

\* resp.raise_for_status() passes; no next link: return out
LastPage ==
    /\ fpc \in {"sections", "courses"}
    /\ \E items \in PageItems :
          /\ requests' = Append(requests, Request(fpc, "last", 200))
          /\ fetched' = fetched \o items
          /\ outcome' = [kind |-> "return", value |-> 200]
    /\ fpc' = "returned"
    /\ UNCHANGED <<findVars, dedupeVars, wizardVars, deidVars, callVars,
                   normVars, greedyVars, echoVars>>

\* url = builder("sections"): resp.raise_for_status() raises HTTPStatusError
\* in the sections fetch; on 404 the fetch of builder("courses") starts
SectionsStatusError ==
    /\ fpc = "sections"
    /\ \E status \in ErrorStatuses :
          /\ requests' = Append(requests, Request("sections", "error", status))
          /\ IF FallsBack(status)
             THEN /\ fpc' = "courses"
                  /\ UNCHANGED outcome
             ELSE /\ fpc' = "raised"
                  /\ outcome' = [kind |-> "HTTPStatusError", value |-> status]
    /\ fetched' = <<>>
    /\ UNCHANGED <<findVars, dedupeVars, wizardVars, deidVars, callVars,
                   normVars, greedyVars, echoVars>>

\* resp.raise_for_status() raises in the courses fetch: nothing catches it
CoursesStatusError ==
    /\ fpc = "courses"
    /\ \E status \in ErrorStatuses :
          /\ requests' = Append(requests, Request("courses", "error", status))
          /\ outcome' = [kind |-> "HTTPStatusError", value |-> status]
    /\ fpc' = "raised"
    /\ fetched' = <<>>
    /\ UNCHANGED <<findVars, dedupeVars, wizardVars, deidVars, callVars,
                   normVars, greedyVars, echoVars>>

\* self.client.get raises an error that is not an HTTPStatusError
TransportError ==
    /\ fpc \in {"sections", "courses"}
    /\ requests' = Append(requests, Request(fpc, "transport", 0))
    /\ outcome' = [kind |-> "TransportError", value |-> 0]
    /\ fpc' = "raised"
    /\ fetched' = <<>>
    /\ UNCHANGED <<findVars, dedupeVars, wizardVars, deidVars, callVars,
                   normVars, greedyVars, echoVars>>

NextFetch ==
    \/ PageWithNext
    \/ LastPage
    \/ SectionsStatusError
    \/ CoursesStatusError
    \/ TransportError

InitFetch ==
    /\ requests = <<>>
    /\ fetched = <<>>
    /\ outcome = [kind |-> "none", value |-> 0]
    /\ fpc = "sections"
    /\ IdleNorm
    /\ IdleGreedy
    /\ IdleEcho
    /\ IdleFind
    /\ IdleDedupe
    /\ IdleWizard
    /\ IdleDeid
    /\ IdleCall

SpecFetch == InitFetch /\ [][NextFetch]_vars


\* C27: the first request goes to the sections endpoint; the courses endpoint
\* is requested only after a sections request was answered 404, by one fetch
\* that starts after the last sections request; any other HTTP error of the
\* sections fetch is raised with no courses request, and an HTTP error of the
\* courses fetch is raised to the caller
SectionsRequests == { i \in 1..Len(requests) : requests[i].endpoint = "sections" }
CoursesRequests == { i \in 1..Len(requests) : requests[i].endpoint = "courses" }

LastRequest == requests[Len(requests)]

C27_SectionsFirstCoursesOn404 ==
    /\ requests # <<>> => requests[1].endpoint = "sections"
    /\ \A c \in CoursesRequests :
          /\ \A i \in SectionsRequests : i < c
          /\ c - 1 \in SectionsRequests => requests[c - 1].status = 404
          /\ c - 1 \in CoursesRequests => requests[c - 1].answer = "next"
    /\ Cardinality({ i \in SectionsRequests : requests[i].status = 404 }) <= 1
    /\ \A i \in 1..Len(requests) :
          requests[i].answer = "error" =>
             \/ /\ requests[i].endpoint = "sections"
                /\ requests[i].status = 404
                /\ fpc # "raised" \/ i < Len(requests)
             \/ /\ i = Len(requests)
                /\ fpc = "raised"
                /\ outcome = [kind |-> "HTTPStatusError", value |-> requests[i].status]

C27_Witness ==
    /\ fpc = "raised"
    /\ LastRequest.endpoint = "courses"
    /\ LastRequest.status = 500
    /\ Cardinality(SectionsRequests) = 2

C27_WitnessNoFallback ==
    /\ fpc = "raised"
    /\ LastRequest.endpoint = "sections"
    /\ LastRequest.status = 500


(***************************************************************************)
(* The wizard of app.py: session state over script runs                    *)
(***************************************************************************)
\* The keys the wizard stores besides step
SessionKeys ==
    {"canvas", "echo", "grades", "results", "base_url", "course_id",
     "student_count", "echo_base_url", "echo_section_id"}

\* for k in [...]: _state.pop(k, None)
RestartKeysNoResults == SessionKeys \ {"results"}
RestartKeys ==
    {"canvas", "echo", "grades", "results", "base_url", "course_id",
     "student_count", "echo_base_url", "echo_section_id"}

Has(s, key) == s[key] # "absent"

Pop(s, keys) == [x \in SessionKeys |-> IF x \in keys THEN "absent" ELSE s[x]]

\* What the text inputs hold when a button is pressed
BaseUrls == {"", "https://a.instructure.com", "https://b.instructure.com"}
CourseIds == {"", "101", "102", "abc"}
EchoBaseUrls == {"", "https://echo360.org", "https://echo360.ca"}
EchoSectionIds == {"", "s-1", "s-2"}

\* get_student_count: None or a count
StudentCounts == {"None", "0", "30"}

\* The body of the script after the sidebar: the form of step 1 or 2, and
\* the dashboard when results is set (it reads echo, grades and canvas)
Render(st, s) ==
    IF Has(s, "results")
    THEN IF Has(s, "echo") /\ Has(s, "grades") /\ Has(s, "canvas")
         THEN "dashboard" ELSE "KeyError"
    ELSE IF st = 1 THEN "step 1"
    ELSE IF st = 2 THEN "step 2"
    ELSE "blank"

\* if st.button("Restart wizard"): pop the keys, step = 1, rerun
RestartWizard ==
    /\ session' = Pop(session, RestartKeys)
    /\ step' = 1
    /\ notice' = "none"
    /\ page' = Render(1, session')
    /\ UNCHANGED secrets
    /\ UNCHANGED <<findVars, dedupeVars, fetchVars, deidVars, callVars,
                   normVars, greedyVars, echoVars>>

\* Step 1, "Fetch Canvas Data" with all inputs given; load_canvas_data returns
FetchCanvasData ==
    /\ step = 1
    /\ secrets.TOKEN
    /\ \E base_url \in BaseUrls \ {""}, course_id \in CourseIds \ {""},
          student_count \in StudentCounts :
          session' = [Pop(session, {"echo", "results"}) EXCEPT
                         !["canvas"] = "canvas_df",
                         !["grades"] = "gradebook_tables",
                         !["base_url"] = base_url,
                         !["course_id"] = course_id,
                         !["student_count"] = student_count]
    /\ step' = 2
    /\ notice' = "none"
    /\ page' = Render(2, session')
    /\ UNCHANGED secrets
    /\ UNCHANGED <<findVars, dedupeVars, fetchVars, deidVars, callVars,
                   normVars, greedyVars, echoVars>>

\* Step 1, load_canvas_data raises: except Exception, st.error
FetchCanvasRaises ==
    /\ step = 1
    /\ secrets.TOKEN
    /\ notice' = "Canvas error"
    /\ page' = Render(step, session)
    /\ UNCHANGED <<step, session, secrets>>
    /\ UNCHANGED <<findVars, dedupeVars, fetchVars, deidVars, callVars,
                   normVars, greedyVars, echoVars>>

\* Step 2, "Fetch Echo Data" with all inputs given; load_echo_tables returns
FetchEchoData ==
    /\ step = 2
    /\ secrets.ECHO_TOKEN
    /\ Has(session, "canvas")
    /\ \E echo_base_url \in EchoBaseUrls \ {""},
          echo_section_id \in EchoSectionIds \ {""} :
          session' = [session EXCEPT
                         !["echo"] = "echo_tables",
                         !["echo_base_url"] = echo_base_url,
                         !["echo_section_id"] = echo_section_id,
                         !["results"] = "True"]
    /\ step' = 3
    /\ notice' = "none"
    /\ page' = Render(3, session')
    /\ UNCHANGED secrets
    /\ UNCHANGED <<findVars, dedupeVars, fetchVars, deidVars, callVars,
                   normVars, greedyVars, echoVars>>

\* Step 2, load_echo_tables (or the read of _state["canvas"]) raises
FetchEchoRaises ==
    /\ step = 2
    /\ secrets.ECHO_TOKEN
    /\ notice' = "Echo processing error"
    /\ page' = Render(step, session)
    /\ UNCHANGED <<step, session, secrets>>
    /\ UNCHANGED <<findVars, dedupeVars, fetchVars, deidVars, callVars,
                   normVars, greedyVars, echoVars>>

\* A fetch button pressed with an input or the token missing: the condition
\* of the if is false, the script run only redraws the page
FetchSkipped ==
    /\ \/ /\ step = 1
          /\ \E base_url \in BaseUrls, course_id \in CourseIds :
                base_url = "" \/ course_id = "" \/ ~secrets.TOKEN
       \/ /\ step = 2
          /\ \E echo_base_url \in EchoBaseUrls, echo_section_id \in EchoSectionIds :
                echo_base_url = "" \/ echo_section_id = "" \/ ~secrets.ECHO_TOKEN
    /\ notice' = "none"
    /\ page' = Render(step, session)
    /\ UNCHANGED <<step, session, secrets>>
    /\ UNCHANGED <<findVars, dedupeVars, fetchVars, deidVars, callVars,
                   normVars, greedyVars, echoVars>>

NextWizard ==
    \/ RestartWizard
    \/ FetchCanvasData
    \/ FetchCanvasRaises
    \/ FetchEchoData
    \/ FetchEchoRaises
    \/ FetchSkipped

\* st.session_state.setdefault("step", 1) in a new session
InitWizard ==
    /\ step = 1
    /\ session = [x \in SessionKeys |-> "absent"]
    /\ secrets \in [TOKEN : BOOLEAN, ECHO_TOKEN : BOOLEAN]
    /\ notice = "none"
    /\ page = "step 1"
    /\ IdleNorm
    /\ IdleGreedy
    /\ IdleEcho
    /\ IdleFind
    /\ IdleDedupe
    /\ IdleFetch
    /\ IdleDeid
    /\ IdleCall

SpecWizard == InitWizard /\ [][NextWizard]_vars

\* C30: in every reachable session step is 1, 2 or 3; at step 2 canvas and
\* grades are present; results set means step 3 with canvas, grades and echo
\* present, so the dashboard never reads a missing key; a fetch that raises
\* leaves step and every stored key as they were; Restart gives step 1 with
\* none of the keys present
SessionShape ==
    /\ step \in {1, 2, 3}
    /\ step = 2 => Has(session, "canvas") /\ Has(session, "grades")
    /\ Has(session, "results") =>
          /\ step = 3
          /\ Has(session, "canvas") /\ Has(session, "grades") /\ Has(session, "echo")
    /\ page # "KeyError"

RaisingFetchKeepsSession ==
    notice' \in {"Canvas error", "Echo processing error"} =>
        /\ step' = step
        /\ session' = session

RestartClearsSession ==
    RestartWizard =>
        /\ step' = 1
        /\ \A key \in SessionKeys : ~Has(session', key)

C30_WizardSessionInvariant ==
    /\ []SessionShape
    /\ [][RaisingFetchKeepsSession /\ RestartClearsSession]_vars

C30_Witness ==
    /\ step = 3
    /\ Has(session, "results")
    /\ page = "dashboard"


\* C26: the candidates are visited by score descending, and candidates of
\* equal score in the order in which candidate generation found them; so of
\* two conflicting candidates of equal score the later-found one is returned
\* only if the earlier-found one was already blocked when it was visited
Discovered ==
    IF pass = "primary" THEN PrimaryCandidates(1, THRESHOLD, TOP_K)
    ELSE FallbackCandidates(1, FALLBACK_MIN)

IndexIn(list, c) == CHOOSE n \in 1..Len(list) : list[n] = c

Sorted == gpc \in {"select", "returned"}

Conflicting(c, d) == c # d /\ (c[1] = d[1] \/ c[2] = d[2])

VisitedBefore(e, c) ==
    \E a, b \in 1..Len(candidates) :
        a < b /\ candidates[a] = e /\ candidates[b] = c

C28_GreedyMaximal ==
    Returned =>
        \A n \in 1..Len(candidates) :
            ~InChosen(candidates[n]) =>
                \E m \in 1..Len(chosen) :
                    /\ \/ chosen[m][1] = candidates[n][1]
                       \/ chosen[m][2] = candidates[n][2]
                    /\ chosen[m][3] >= candidates[n][3]

C28_Witness ==
    /\ Returned
    /\ Len(chosen) = 2
    /\ \E n \in 1..Len(candidates) :
          /\ ~InChosen(candidates[n])
          /\ \E m \in 1..Len(chosen) :
                /\ chosen[m][1] = candidates[n][1]
                /\ chosen[m][3] > candidates[n][3]


(***************************************************************************)
(* De-identification: _deidentify_students and the per-student table of    *)
(* build_gradebook_tables in grades_adapter.py                             *)
(***************************************************************************)
\* A gradebook is a record of its column headers and its rows, each row a
\* sequence of cells (the text of a CSV field) in column order
\* Columns that are not assignment columns
IDENTITY_OR_META ==
    { <<"s", "t", "u", "d", "e", "n", "t">>,
      <<"i", "d">>,
      <<"s", "i", "s", " ", "u", "s", "e", "r", " ", "i", "d">>,
      <<"s", "i", "s", " ", "l", "o", "g", "i", "n", " ", "i", "d">>,
      <<"i", "n", "t", "e", "g", "r", "a", "t", "i", "o", "n", " ", "i", "d">>,
      <<"s", "e", "c", "t", "i", "o", "n">>,
      <<"f", "i", "n", "a", "l", " ", "g", "r", "a", "d", "e">>,
      <<"c", "u", "r", "r", "e", "n", "t", " ", "g", "r", "a", "d", "e">>,
      <<"u", "n", "p", "o", "s", "t", "e", "d", " ", "f", "i", "n", "a", "l", " ", "g", "r", "a", "d", "e">>,
      <<"f", "i", "n", "a", "l", " ", "s", "c", "o", "r", "e">>,
      <<"c", "u", "r", "r", "e", "n", "t", " ", "s", "c", "o", "r", "e">>,
      <<"u", "n", "p", "o", "s", "t", "e", "d", " ", "f", "i", "n", "a", "l", " ", "s", "c", "o", "r", "e">>,
      <<"f", "i", "n", "a", "l", " ", "p", "o", "i", "n", "t", "s">>,
      <<"c", "u", "r", "r", "e", "n", "t", " ", "p", "o", "i", "n", "t", "s">>,
      <<"u", "n", "p", "o", "s", "t", "e", "d", " ", "c", "u", "r", "r", "e", "n", "t", " ", "s", "c", "o", "r", "e">> }

\* The grade columns kept for the per-student table, in this order
KEEP_COLS ==
    << <<"F", "i", "n", "a", "l", " ", "G", "r", "a", "d", "e">>,
      <<"C", "u", "r", "r", "e", "n", "t", " ", "G", "r", "a", "d", "e">>,
      <<"U", "n", "p", "o", "s", "t", "e", "d", " ", "F", "i", "n", "a", "l", " ", "G", "r", "a", "d", "e">>,
      <<"F", "i", "n", "a", "l", " ", "S", "c", "o", "r", "e">>,
      <<"C", "u", "r", "r", "e", "n", "t", " ", "S", "c", "o", "r", "e">>,
      <<"U", "n", "p", "o", "s", "t", "e", "d", " ", "F", "i", "n", "a", "l", " ", "S", "c", "o", "r", "e">> >>

\* The id columns dropped by _deidentify_students, in this order
DROP_KEYS ==
    << <<"s", "i", "s", " ", "u", "s", "e", "r", " ", "i", "d">>,
      <<"s", "i", "s", " ", "l", "o", "g", "i", "n", " ", "i", "d">>,
      <<"i", "n", "t", "e", "g", "r", "a", "t", "i", "o", "n", " ", "i", "d">>,
      <<"i", "d">> >>

STUDENT_KEY == <<"s", "t", "u", "d", "e", "n", "t">>

POINTS_POSSIBLE == <<"p", "o", "i", "n", "t", "s", " ", "p", "o", "s", "s", "i", "b", "l", "e">>

STUDENT_TEST == <<"s", "t", "u", "d", "e", "n", "t", ",", " ", "t", "e", "s", "t">>

UNNAMED == <<"u", "n", "n", "a", "m", "e", "d">>

\* _lower_map(cols)[key], or nothing when the key is absent
LowGet(low, key) ==
    IF \E i \in 1..Len(low) : low[i].key = key
    THEN Val(low[CHOOSE i \in 1..Len(low) : low[i].key = key].value)
    ELSE NaN

\* The positions of the columns that carry a label
ColumnsNamed(cols, label) == { c \in 1..Len(cols) : cols[c] = label }

\* A set of column positions as a sequence, ascending
RECURSIVE InColumnOrder(_)
InColumnOrder(at) ==
    IF at = {} THEN <<>>
    ELSE LET least == CHOOSE x \in at : \A y \in at : x <= y
         IN  <<least>> \o InColumnOrder(at \ {least})

\* frame[cols at the positions given]
TakeColumns(frame, at) ==
    [columns |-> [x \in 1..Len(at) |-> frame.columns[at[x]]],
     rows    |-> [r \in 1..Len(frame.rows) |->
                     [x \in 1..Len(at) |-> frame.rows[r][at[x]]]]]

\* line 118: gb_raw.columns = [_clean_assignment_header(c) for c in ...]
CleanHeaders(frame) ==
    [columns |-> [c \in 1..Len(frame.columns) |->
                     _clean_assignment_header(frame.columns[c])],
     rows    |-> frame.rows]

\* DataFrame.empty: no rows or no columns
IsEmptyFrame(frame) == frame.columns = <<>> \/ frame.rows = <<>>

EmptyFrame == [columns |-> <<>>, rows |-> <<>>]

\* lines 129-135: a row stays unless its Student cell, lowercased, contains
\* "points possible" or "student, test"
KeepsRow(cols, row) ==
    LET st == LowGet(LowerMap(cols, <<>>), STUDENT_KEY)
    IN  IF st = NaN THEN TRUE
        ELSE LET c == CHOOSE x \in ColumnsNamed(cols, st[1]) : TRUE
                 s == str_lower(row[c])
             IN  /\ ~IsSubstring(POINTS_POSSIBLE, s)
                 /\ ~IsSubstring(STUDENT_TEST, s)

\* lines 124-135: the rows after the first, filtered
students_raw(frame) ==
    [columns |-> frame.columns,
     rows    |-> SelectSeq(Tail(frame.rows),
                           LAMBDA row : KeepsRow(frame.columns, row))]

StartsWith(s, prefix) ==
    Len(s) >= Len(prefix) /\ SubSeq(s, 1, Len(prefix)) = prefix

_is_assignment_col(col) ==
    LET c == str_lower(strip(col))
    IN  IF StartsWith(c, UNNAMED) THEN FALSE ELSE c \notin IDENTITY_OR_META

\* _assignment_columns(gb_raw) is not empty
HasAssignmentColumns(frame) ==
    \E c \in 1..Len(frame.columns) : _is_assignment_col(frame.columns[c])

\* lines 163-166: keep_cols, in the order of the list
keep_cols(frame) ==
    SelectSeq(KEEP_COLS,
              LAMBDA label : \E c \in 1..Len(frame.columns) : frame.columns[c] = label)

\* students_raw[keep_cols]
SelectKept(frame) ==
    LET kc == keep_cols(frame)
    IN  TakeColumns(frame,
            [x \in 1..Len(kc) |->
                CHOOSE c \in ColumnsNamed(frame.columns, kc[x]) : TRUE])

\* f"S{i+1:04d}"
ZeroPad4(digits) ==
    IF Len(digits) >= 4 THEN digits
    ELSE [x \in 1..(4 - Len(digits)) |-> "0"] \o digits

StudentLabel(r) == <<"S">> \o ZeroPad4(ToDecimal(r))

\* for k in [...]: if k in low: out.drop(columns=[low[k]])
DroppedLabels(low) ==
    { LowGet(low, DROP_KEYS[x])[1] :
        x \in { y \in 1..Len(DROP_KEYS) : LowGet(low, DROP_KEYS[y]) # NaN } }

_deidentify_students(frame) ==
    LET low     == LowerMap(frame.columns, <<>>)
        st      == LowGet(low, STUDENT_KEY)
        labeled == [r \in 1..Len(frame.rows) |->
                      [c \in 1..Len(frame.columns) |->
                          IF st # NaN /\ frame.columns[c] = st[1]
                          THEN StudentLabel(r)
                          ELSE frame.rows[r][c]]]
        dropped == DroppedLabels(low)
    IN  TakeColumns([columns |-> frame.columns, rows |-> labeled],
                    InColumnOrder({ c \in 1..Len(frame.columns) :
                                      frame.columns[c] \notin dropped }))

\* The per-student table build_gradebook_tables returns
PerStudentTable(arg) ==
    LET gb == CleanHeaders(arg)
    IN  IF IsEmptyFrame(gb) THEN EmptyFrame
        ELSE IF ~HasAssignmentColumns(gb)
             THEN _deidentify_students(students_raw(gb))
        ELSE IF keep_cols(gb) # <<>>
             THEN _deidentify_students(SelectKept(students_raw(gb)))
        ELSE _deidentify_students(students_raw(gb))

\* One call of build_gradebook_tables, by caller n
BuildPerStudentTable(n) ==
    /\ n \in {1, 2} \ returned_to
    /\ gradebook_df' = [gradebook_df EXCEPT ![n] = PerStudentTable(book[n])]
    /\ returned_to' = returned_to \cup {n}
    /\ UNCHANGED book
    /\ UNCHANGED <<findVars, dedupeVars, fetchVars, wizardVars, callVars,
                   normVars, greedyVars, echoVars>>

NextDeid == \E n \in {1, 2} : BuildPerStudentTable(n)

\* Inputs of SpecDeid ----------------------------------------------------
MaxNames == 2

\* Headers of a Canvas gradebook export, in the order Canvas writes them,
\* with an assignment named "Id" last
ExportHeaders ==
    << <<"S", "t", "u", "d", "e", "n", "t">>,
      <<"I", "D">>,
      <<"S", "I", "S", " ", "U", "s", "e", "r", " ", "I", "D">>,
      <<"S", "I", "S", " ", "L", "o", "g", "i", "n", " ", "I", "D">>,
      <<"I", "n", "t", "e", "g", "r", "a", "t", "i", "o", "n", " ", "I", "D">>,
      <<"S", "e", "c", "t", "i", "o", "n">>,
      <<"H", "W", " ", "1", " ", "(", "1", "2", "3", "4", "5", ")">>,
      <<"F", "i", "n", "a", "l", " ", "S", "c", "o", "r", "e">>,
      <<"I", "d", " ", "(", "1", "2", "3", "4", "6", ")">> >>

\* Student names
StudentNames ==
    { <<"A", "n", "n">>,
      <<"S", "t", "u", "d", "e", "n", "t", ",", " ", "T", "e", "s", "t">> }

POINTS_ROW_NAME == <<"P", "o", "i", "n", "t", "s", " ", "P", "o", "s", "s", "i", "b", "l", "e">>

\* Student ids of the two gradebooks, by row
IdsOf(b) == IF b = 1 THEN << <<"1">>, <<"2">>, <<"3">> >>
            ELSE << <<"7">>, <<"8">>, <<"9">> >>

\* A selection of the export's columns: the three SIS columns come together
\* and only with the ID column
Layouts ==
    { m \in [1..Len(ExportHeaders) -> BOOLEAN] :
        /\ m[3] = m[4] /\ m[4] = m[5]
        /\ m[3] => m[2] }

\* The cell of export column c in student row r
CellOf(c, r, name, id) ==
    IF c = 1 THEN name
    ELSE IF c \in 2..5 THEN id
    ELSE IF c = 6 THEN <<"0", "0", "1">>
    ELSE IF c = 8 THEN ToDecimal(90 + r)
    ELSE ToDecimal(r)

\* The cell of export column c in the Points Possible row
PointsCell(c) ==
    IF c = 1 THEN POINTS_ROW_NAME
    ELSE IF c \in {7, 9} THEN <<"1", "0">>
    ELSE <<>>

\* The gradebook with the columns of layout m, a Points Possible row when
\* points is TRUE, and one row per student name
GradebookOf(m, points, names, ids) ==
    LET at == InColumnOrder({ c \in 1..Len(ExportHeaders) : m[c] })
    IN  [columns |-> [x \in 1..Len(at) |-> ExportHeaders[at[x]]],
         rows    |-> (IF points
                      THEN << [x \in 1..Len(at) |-> PointsCell(at[x])] >>
                      ELSE <<>>)
                     \o [r \in 1..Len(names) |->
                           [x \in 1..Len(at) |->
                               CellOf(at[x], r, names[r], ids[r])]]]

NameLists == UNION { [1..n -> StudentNames] : n \in 0..MaxNames }

\* Two gradebooks that differ in student names and ids only
InitDeid ==
    /\ \E m \in Layouts, points \in BOOLEAN, n1, n2 \in NameLists,
          ids \in {1, 2} :
          /\ Len(n1) = Len(n2)
          /\ points \/ n1 = <<>>
          /\ book = << GradebookOf(m, points, n1, IdsOf(1)),
                       GradebookOf(m, points, n2, IdsOf(ids)) >>
    /\ gradebook_df = <<EmptyFrame, EmptyFrame>>
    /\ returned_to = {}
    /\ IdleNorm
    /\ IdleGreedy
    /\ IdleEcho
    /\ IdleFind
    /\ IdleDedupe
    /\ IdleFetch
    /\ IdleWizard
    /\ IdleCall

SpecDeid == InitDeid /\ [][NextDeid]_vars

\* C25: the per-student table returned has no SIS User ID, SIS Login ID,
\* Integration ID or ID column, every value of a Student column is the label
\* S0001.. of its row, and two gradebooks that differ in names and ids only,
\* and lose the same rows to the test-student filter, give the same table
IdentityLabels ==
    { ExportHeaders[2], ExportHeaders[3], ExportHeaders[4], ExportHeaders[5] }

Deidentified(frame) ==
    /\ \A c \in 1..Len(frame.columns) : frame.columns[c] \notin IdentityLabels
    /\ \A c \in 1..Len(frame.columns) :
          frame.columns[c] = ExportHeaders[1] =>
              \A r \in 1..Len(frame.rows) : frame.rows[r][c] = StudentLabel(r)

KeptRows(frame) ==
    { r \in 1..Len(frame.rows) : KeepsRow(frame.columns, frame.rows[r]) }

C25_PerStudentTableDeidentified ==
    /\ \A n \in returned_to : Deidentified(gradebook_df[n])
    /\ (returned_to = {1, 2} /\ KeptRows(book[1]) = KeptRows(book[2])) =>
           gradebook_df[1] = gradebook_df[2]


(***************************************************************************)
(* Arguments and results of build_echo_tables and build_gradebook_tables:  *)
(* the caller's tables, the working copy, and the shape of the outputs     *)
(***************************************************************************)
\* CANDIDATES["viewtime"]
CANDIDATES_viewtime ==
    << <<"t", "o", "t", "a", "l", " ", "v", "i", "e", "w", " ", "t", "i", "m", "e">>,
       <<"t", "o", "t", "a", "l", " ", "v", "i", "e", "w", "t", "i", "m", "e">>,
       <<"t", "o", "t", "a", "l", " ", "w", "a", "t", "c", "h", " ", "t", "i", "m", "e">>,
       <<"v", "i", "e", "w", " ", "t", "i", "m", "e">> >>

\* CANDIDATES["avgview"]
CANDIDATES_avgview ==
    << <<"a", "v", "e", "r", "a", "g", "e", " ", "v", "i", "e", "w", " ", "t", "i", "m", "e">>,
       <<"a", "v", "g", " ", "v", "i", "e", "w", " ", "t", "i", "m", "e">>,
       <<"a", "v", "g", " ", "w", "a", "t", "c", "h", " ", "t", "i", "m", "e">>,
       <<"a", "v", "e", "r", "a", "g", "e", " ", "w", "a", "t", "c", "h", " ", "t", "i", "m", "e">> >>

\* CANDIDATES["user"]
CANDIDATES_user ==
    << <<"u", "s", "e", "r", " ", "e", "m", "a", "i", "l">>,
       <<"u", "s", "e", "r", " ", "n", "a", "m", "e">>,
       <<"e", "m", "a", "i", "l">>,
       <<"u", "s", "e", "r">>,
       <<"v", "i", "e", "w", "e", "r">>,
       <<"u", "s", "e", "r", "n", "a", "m", "e">> >>

\* The columns of the frame build_engagement_dataframe returns
ENGAGEMENT_COLUMNS ==
    << <<"M", "e", "d", "i", "a", " ", "T", "i", "t", "l", "e">>,
       <<"V", "i", "d", "e", "o", " ", "D", "u", "r", "a", "t", "i", "o", "n">>,
       <<"T", "o", "t", "a", "l", " ", "V", "i", "e", "w", " ", "T", "i", "m", "e">>,
       <<"A", "v", "e", "r", "a", "g", "e", " ", "V", "i", "e", "w", " ", "T", "i", "m", "e">>,
       <<"U", "s", "e", "r", " ", "E", "m", "a", "i", "l">> >>

TRUE_VIEW_FRAC == <<"_", "_", "t", "r", "u", "e", "_", "v", "i", "e", "w", "_", "f", "r", "a", "c">>

\* Cell texts of the inputs
MediaA == <<"L", "e", "c", "t", "u", "r", "e">>
TenMinutes == <<"1", "0", ":", "0", "0">>
FiveMinutes == <<"5", ":", "0", "0">>
ViewerU == <<"u", "@", "x", ".", "e", "d", "u">>
StudentOnly == <<<<"S", "t", "u", "d", "e", "n", "t">>>>

\* A cell of a frame: a text, or a number (np.nan is the number NaN)
Text(s) == [kind |-> "text", text |-> s, num |-> NaN]

Number(v) == [kind |-> "number", text |-> <<>>, num |-> v]

\* The digits of a text as a number
RECURSIVE DecimalValue(_)
DecimalValue(s) ==
    IF s = <<>> THEN 0
    ELSE 10 * DecimalValue(SubSeq(s, 1, Len(s) - 1))
         + (CHOOSE d \in 0..9 : DigitChars[d + 1] = s[Len(s)])

\* s.split(":")
RECURSIVE SplitAtColons(_)
SplitAtColons(s) ==
    IF \A i \in 1..Len(s) : s[i] # ":" THEN <<s>>
    ELSE LET i == CHOOSE x \in 1..Len(s) :
                     s[x] = ":" /\ \A y \in 1..(x - 1) : s[y] # ":"
         IN  <<SubSeq(s, 1, i - 1)>> \o SplitAtColons(SubSeq(s, i + 1, Len(s)))

\* float(p) succeeds (on the texts of the inputs: a run of digits)
IsFloatText(p) == IsDigitString(strip(p))

_to_seconds(x) ==
    IF x.kind = "number" THEN x
    ELSE LET s     == strip(x.text)
             parts == SplitAtColons(s)
             P(i)  == DecimalValue(strip(parts[i]))
         IN  IF s = <<>> THEN Number(NaN)
             ELSE IF IsFloatText(s) THEN Number(Val(DecimalValue(s)))
             ELSE IF \E i \in 1..Len(parts) : ~IsFloatText(parts[i])
                  THEN Number(NaN)
             ELSE IF Len(parts) = 3
                  THEN Number(Val(P(1) * 3600 + P(2) * 60 + P(3)))
             ELSE IF Len(parts) = 2 THEN Number(Val(P(1) * 60 + P(2)))
             ELSE Number(NaN)

\* The position of the column _find_col returned, 0 for None
ColumnAt(frame, hit) ==
    IF isna(hit.value) THEN 0
    ELSE CHOOSE c \in 1..Len(frame.columns) : frame.columns[c] = hit.value[1]

\* df[col] = df[col].map(_to_seconds) on the columns at the positions given
MapToSeconds(frame, at) ==
    [columns |-> frame.columns,
     rows    |-> [r \in 1..Len(frame.rows) |->
                     [c \in 1..Len(frame.columns) |->
                         IF c \in at THEN _to_seconds(frame.rows[r][c])
                         ELSE frame.rows[r][c]]]]

\* df[label] = values, for a label the frame does not have yet
AddColumn(frame, label, values) ==
    [columns |-> Append(frame.columns, label),
     rows    |-> [r \in 1..Len(frame.rows) |->
                     Append(frame.rows[r], values[r])]]

\* del df[label]
DelColumn(frame, label) ==
    TakeColumns(frame, InColumnOrder({ c \in 1..Len(frame.columns) :
                                         frame.columns[c] # label }))

\* df = echo_csv_file.copy() / gb_raw = gradebook_csv_file.copy(): the frame
\* worked on is a new object
IsCopyNever == FALSE
IsCopy == TRUE

\* A write to the working frame; the caller sees it if the object is shared
WriteLocal(frame) ==
    /\ local' = frame
    /\ arg_table' = IF shares THEN frame ELSE arg_table

\* The shape of a returned table: its columns and its number of rows
Shape(cols, n) == [columns |-> cols, nrows |-> n]

MODULE_TABLE_COLUMNS ==
    <<"Module", "Average View %", "# of Students Viewing", "Overall View %",
      "# of Students">>

ECHO_SUMMARY_COLUMNS ==
    <<"Media Title", "Video Duration", "# of Unique Viewers", "Average View %",
      "% of Students Viewing", "% of Video Viewed Overall">>

STUDENT_TABLE_COLUMNS ==
    <<"Student", "Average View % When Watched", "View % of Total Video",
      "Final Grade">>

EMPTY_STUDENT_TABLE_COLUMNS ==
    <<"Student", "Final Grade", "Average View % When Watched",
      "View % of Total Video">>

MODULE_METRICS_COLUMNS ==
    <<"Module", "Avg % Turned In", "Avg Average Excluding Zeros",
      "n_assignments">>

\* canvas_order_df is None or canvas_order_df.empty
CatalogEmpty(cat) == cat.none \/ cat.columns = {} \/ cat.rows = <<>>

\* The five _find_col calls of build_echo_tables
Locate(frame) ==
    [media    |-> _find_col(frame.columns, CANDIDATES_media, TRUE),
     duration |-> _find_col(frame.columns, CANDIDATES_duration, TRUE),
     viewtime |-> _find_col(frame.columns, CANDIDATES_viewtime, TRUE),
     avgview  |-> _find_col(frame.columns, CANDIDATES_avgview, FALSE),
     user     |-> _find_col(frame.columns, CANDIDATES_user, FALSE)]

FirstError(loc) ==
    IF loc.media.kind = "KeyError" THEN loc.media
    ELSE IF loc.duration.kind = "KeyError" THEN loc.duration
    ELSE loc.viewtime

NoTables == [kind |-> "none", module_table |-> Shape(<<>>, 0),
             others |-> <<>>]

\* lines 147-156: the frame is copied and the columns are located
EchoEnter ==
    /\ cpc = "call"
    /\ fn = "build_echo_tables"
    /\ shares' = ~IsCopy
    /\ local' = arg_table
    /\ LET loc == Locate(arg_table)
       IN  IF \E f \in {"media", "duration", "viewtime"} : loc[f].kind = "KeyError"
           THEN /\ cpc' = "raised"
                /\ tables' = [NoTables EXCEPT !.kind = "KeyError"]
           ELSE /\ cpc' = "seconds"
                /\ UNCHANGED tables
    /\ UNCHANGED <<fn, given, arg_table, arg_catalog>>
    /\ UNCHANGED <<findVars, dedupeVars, fetchVars, wizardVars, deidVars,
                   normVars, greedyVars, echoVars>>

\* lines 159-162: the time columns are converted to seconds
EchoToSeconds ==
    /\ cpc = "seconds"
    /\ fn = "build_echo_tables"
    /\ LET loc == Locate(local)
           at  == { ColumnAt(local, loc.duration),
                    ColumnAt(local, loc.viewtime),
                    ColumnAt(local, loc.avgview) } \ {0}
       IN  WriteLocal(MapToSeconds(local, at))
    /\ cpc' = "fraction"
    /\ UNCHANGED <<fn, given, arg_catalog, shares, tables>>
    /\ UNCHANGED <<findVars, dedupeVars, fetchVars, wizardVars, deidVars,
                   normVars, greedyVars, echoVars>>

\* line 165: the row-level fraction becomes a column of df
EchoFraction ==
    /\ cpc = "fraction"
    /\ fn = "build_echo_tables"
    /\ LET loc == Locate(local)
           d   == ColumnAt(local, loc.duration)
           v   == ColumnAt(local, loc.viewtime)
       IN  WriteLocal(AddColumn(local, TRUE_VIEW_FRAC,
               [r \in 1..Len(local.rows) |->
                   Number(true_view_frac(
                       [Duration      |-> local.rows[r][d].num,
                        TotalViewTime |-> local.rows[r][v].num]))]))
    /\ cpc' = "tables"
    /\ UNCHANGED <<fn, given, arg_catalog, shares, tables>>
    /\ UNCHANGED <<findVars, dedupeVars, fetchVars, wizardVars, deidVars,
                   normVars, greedyVars, echoVars>>

\* str(x) of a title cell, the key of df.groupby(df[media_col].astype(str))
AsStr(cell) ==
    IF cell.kind = "text" THEN cell.text
    ELSE IF isna(cell.num) THEN <<"n", "a", "n">>
    ELSE ToDecimal(cell.num[1])

\* lines 168-205: one echo_summary row per media
EchoSummaryShape(frame, loc) ==
    LET m == ColumnAt(frame, loc.media)
    IN  Shape(ECHO_SUMMARY_COLUMNS,
              Cardinality({ AsStr(frame.rows[r][m]) : r \in 1..Len(frame.rows) }))

\* lines 207-291: the module table; without a catalog it is the empty table
\* of line 210, and without media no row of m1 has an Average View %, so
\* have is empty and it is the empty table of line 268
ModuleTableShape(cat, summary) ==
    CASE CatalogEmpty(cat) \/ "module" \notin cat.columns ->
             Shape(MODULE_TABLE_COLUMNS, 0)
      [] ~CatalogEmpty(cat) /\ "module" \in cat.columns /\ summary.nrows = 0 ->
             Shape(MODULE_TABLE_COLUMNS, 0)

\* lines 294-315: one row per viewer when there is a user column
StudentTableShape(frame, loc) ==
    LET u == ColumnAt(frame, loc.user)
    IN  IF u = 0 THEN Shape(EMPTY_STUDENT_TABLE_COLUMNS, 0)
        ELSE Shape(STUDENT_TABLE_COLUMNS,
                   Cardinality({ IF frame.rows[r][u] = Number(NaN)
                                 THEN <<"u", "n", "k", "n", "o", "w", "n">>
                                 ELSE AsStr(frame.rows[r][u]) :
                                 r \in 1..Len(frame.rows) }))

\* lines 168-321: the tables are built, the fraction column is deleted from
\* df, and the call returns
EchoReturn ==
    /\ cpc = "tables"
    /\ fn = "build_echo_tables"
    /\ LET loc     == Locate(local)
           summary == EchoSummaryShape(local, loc)
       IN  tables' = [kind         |-> "returned",
                      module_table |-> ModuleTableShape(arg_catalog, summary),
                      others       |-> <<summary, StudentTableShape(local, loc)>>]
    /\ WriteLocal(DelColumn(local, TRUE_VIEW_FRAC))
    /\ cpc' = "returned"
    /\ UNCHANGED <<fn, given, arg_catalog, shares>>
    /\ UNCHANGED <<findVars, dedupeVars, fetchVars, wizardVars, deidVars,
                   normVars, greedyVars, echoVars>>

\* lines 112-118: the gradebook is copied and its headers are cleaned
GradesEnter ==
    /\ cpc = "call"
    /\ fn = "build_gradebook_tables"
    /\ shares' = ~IsCopy
    /\ local' = CleanHeaders(arg_table)
    /\ arg_table' = IF shares' THEN CleanHeaders(arg_table) ELSE arg_table
    /\ cpc' = "tables"
    /\ UNCHANGED <<fn, given, arg_catalog, tables>>
    /\ UNCHANGED <<findVars, dedupeVars, fetchVars, wizardVars, deidVars,
                   normVars, greedyVars, echoVars>>

FrameShape(frame) == Shape(frame.columns, Len(frame.rows))

\* lines 172-204: module_rows stays empty when the catalog lacks one of the
\* three columns or has no assignment row
ModuleMetricsShape(cat) ==
    CASE ~({"module", "item_type", "item_title_raw"} \subseteq cat.columns) ->
             Shape(MODULE_METRICS_COLUMNS, 0)
      [] {"module", "item_type", "item_title_raw"} \subseteq cat.columns
           /\ cat.rows = <<>> ->
             Shape(MODULE_METRICS_COLUMNS, 0)

\* lines 120-210: the three tables of build_gradebook_tables
GradesReturn ==
    /\ cpc = "tables"
    /\ fn = "build_gradebook_tables"
    /\ tables' =
          IF IsEmptyFrame(local)
          THEN [kind         |-> "returned",
                module_table |-> Shape(<<>>, 0),
                others       |-> <<Shape(<<>>, 0), Shape(<<>>, 0)>>]
          ELSE [kind         |-> "returned",
                module_table |-> ModuleMetricsShape(arg_catalog),
                others       |-> <<FrameShape(PerStudentTable(local))>>]
    /\ cpc' = "returned"
    /\ UNCHANGED <<fn, given, arg_table, arg_catalog, local, shares>>
    /\ UNCHANGED <<findVars, dedupeVars, fetchVars, wizardVars, deidVars,
                   normVars, greedyVars, echoVars>>

NextCall ==
    \/ EchoEnter
    \/ EchoToSeconds
    \/ EchoFraction
    \/ EchoReturn
    \/ GradesEnter
    \/ GradesReturn

\* Inputs of SpecCall ------------------------------------------------------
MaxCallRows == 2

\* Rows of the engagement frame: title, duration, view time, average view
\* time, viewer
EngagementRows ==
    { <<Text(MediaA), d, v, Number(NaN), u>> :
        d \in {Text(TenMinutes), Number(Val(600))},
        v \in {Text(FiveMinutes), Number(NaN)},
        u \in {Text(ViewerU), Number(NaN)} }

EngagementFrames ==
    { [columns |-> ENGAGEMENT_COLUMNS, rows |-> rs] :
        rs \in UNION { [1..n -> EngagementRows] : n \in 0..MaxCallRows } }

\* The keys of base_row in CanvasService.build_order_df
ORDER_COLUMNS ==
    {"module", "module_position", "item_type", "item_position",
     "item_title_raw", "item_title_normalized", "video_title_raw", "html_url",
     "external_url"}

NoCatalog == [none |-> TRUE, columns |-> {}, rows |-> <<>>]

Catalog(cols, rs) == [none |-> FALSE, columns |-> cols, rows |-> rs]

OrderRows ==
    { [module |-> "Week 1", item_type |-> t, item_title_raw |-> "HW 1"] :
        t \in {"Assignment", "ExternalTool"} }

\* Catalogs: pd.DataFrame(rows) has no columns when there are no rows
Catalogs ==
    { Catalog({}, <<>>), Catalog(ORDER_COLUMNS, <<>>) }
    \cup { Catalog(ORDER_COLUMNS, <<r>>) : r \in OrderRows }

\* Gradebooks: pd.DataFrame(), the frame of a course without enrollments,
\* and exports with students
CallGradebooks ==
    { EmptyFrame, [columns |-> StudentOnly, rows |-> <<>>] }
    \cup { GradebookOf(m, TRUE, names, IdsOf(1)) :
             m \in { x \in Layouts : x[1] /\ ~x[2] /\ ~x[9] },
             names \in NameLists }

\* The calls in which the catalog or the entity table is empty
InitCall ==
    /\ \E f \in {"build_echo_tables", "build_gradebook_tables"} :
          \E table \in (IF f = "build_echo_tables" THEN EngagementFrames
                        ELSE CallGradebooks),
             cat \in (IF f = "build_echo_tables" THEN Catalogs \cup {NoCatalog}
                      ELSE Catalogs) :
             /\ CatalogEmpty(cat) \/ IsEmptyFrame(table)
             /\ fn = f
             /\ arg_table = table
             /\ arg_catalog = cat
             /\ given = [table |-> table, catalog |-> cat]
    /\ local = <<>>
    /\ shares = FALSE
    /\ tables = NoTables
    /\ cpc = "call"
    /\ IdleNorm
    /\ IdleGreedy
    /\ IdleEcho
    /\ IdleFind
    /\ IdleDedupe
    /\ IdleFetch
    /\ IdleWizard
    /\ IdleDeid

SpecCall == InitCall /\ [][NextCall]_vars

CallEnded == cpc \in {"returned", "raised"}

\* The documented columns of the module-level table of the function called
DocumentedColumns ==
    IF fn = "build_echo_tables" THEN MODULE_TABLE_COLUMNS
    ELSE MODULE_METRICS_COLUMNS

\* C22: when the catalog or the entity table is empty, the call returns
\* without raising and its module-level table (the media module table of
\* build_echo_tables, the assignment-metrics table of
\* build_gradebook_tables) is empty and carries its documented columns.
C22_EmptyInputsKeepColumns ==
    (CallEnded /\ (CatalogEmpty(given.catalog) \/ IsEmptyFrame(given.table)))
        => /\ tables.kind = "returned"
           /\ tables.module_table = Shape(DocumentedColumns, 0)

====
